---- MODULE Spec2Model ----
(***************************************************************************)
(* A model of the quranalyze pipeline: per-chapter JSON documents are      *)
(* loaded and validated (QuranJsonLoader), tokenized, normalized and       *)
(* transliterated into the Corpus word list, and words are related         *)
(* pairwise by RelationBuilder.                                            *)
(*                                                                         *)
(* Text is a sequence of Unicode code points.  Optional values are         *)
(* sequences of length at most one: None is <<>>, a present value x is     *)
(* <<x>>.  A call's outcome is a record with ok = TRUE and the returned    *)
(* value, or ok = FALSE and the class of the exception that escaped.       *)
(***************************************************************************)
EXTENDS Integers, Sequences, FiniteSets, TLC

VARIABLES
    files,        \* the dataset directory: varied chapter number -> document
    lret,         \* outcome of the last QuranJsonLoader call
    c_surahs,     \* Corpus._surahs (Optional tuple of Surah)
    c_words,      \* Corpus._words (Optional list of Word)
    cret,         \* outcome of the last Corpus call
    buildCalled,  \* whether build() has ever been called on the Corpus
    rb_words,     \* the word list the caller passes to the RelationBuilder passes
    rb_relations, \* RelationBuilder.relations
    rb_log,       \* relations emitted by each pass call since construction/clear
    rret,         \* outcome of the last RelationBuilder call
    tx_text,      \* the text handed to the normalizer, transliterator or tokenizer
    tret,         \* outcome of the last call on tx_text
    wf_seed,      \* the word list the first WordFilter was constructed over
    wf_words,     \* WordFilter.words of the filter at the end of the chain
    wfret,        \* outcome of the last WordFilter call
    graphs,       \* the WordGraph objects that exist, by identity (index)
    gb_graph,     \* GraphBuilder.graph: the identity of the builder's graph
    gret,         \* outcome of the last WordGraph / GraphBuilder call
    vret          \* outcome of the last Ayah / Surah / Word constructor call

vars == <<files, lret, c_surahs, c_words, cret, buildCalled,
          rb_words, rb_relations, rb_log, rret,
          tx_text, tret, wf_seed, wf_words, wfret, graphs, gb_graph, gret, vret>>

loaderVars == <<lret>>
corpusVars == <<c_surahs, c_words, cret, buildCalled>>
relVars == <<rb_words, rb_relations, rb_log, rret>>
textVars == <<tx_text, tret>>
filterVars == <<wf_seed, wf_words, wfret>>
graphVars == <<graphs, gb_graph, gret>>
recordVars == <<vret>>

-----------------------------------------------------------------------------
(* Generic helpers *)

None == <<>>
Some(x) == <<x>>

Ok(v) == [ok |-> TRUE, val |-> v, err |-> "none"]
Fail(kind) == [ok |-> FALSE, val |-> None, err |-> kind]

\* The exception classes that derive from QuranalyzeError (exceptions.py).
QuranalyzeErrors ==
    {"QuranalyzeError", "DataLoadError", "DataValidationError", "FilterError",
     "GraphBuildError", "VisualizationError", "NormalizationError",
     "TokenizationError", "TransliterationError"}

Range(s) == {s[i] : i \in DOMAIN s}

RECURSIVE SeqsUpTo(_, _)
SeqsUpTo(S, n) ==
    IF n = 0 THEN {<<>>}
    ELSE LET shorter == SeqsUpTo(S, n - 1)
         IN shorter \cup {Append(s, x) : s \in {t \in shorter : Len(t) = n - 1}, x \in S}

MinOf(S) == CHOOSE x \in S : \A y \in S : x <= y

\* The members of a set of integers as an ascending sequence
Ascending(S) ==
    [k \in 1..Cardinality(S) |->
        CHOOSE n \in S : Cardinality({m \in S : m < n}) = k - 1]

\* f[lo] \o ... \o f[hi] and f[lo] + ... + f[hi], by halving the range
RECURSIVE ConcatRange(_, _, _)
ConcatRange(f, lo, hi) ==
    IF lo > hi THEN <<>>
    ELSE IF lo = hi THEN f[lo]
    ELSE LET mid == (lo + hi) \div 2
         IN ConcatRange(f, lo, mid) \o ConcatRange(f, mid + 1, hi)

RECURSIVE SumRange(_, _, _)
SumRange(f, lo, hi) ==
    IF lo > hi THEN 0
    ELSE IF lo = hi THEN f[lo]
    ELSE LET mid == (lo + hi) \div 2
         IN SumRange(f, lo, mid) + SumRange(f, mid + 1, hi)

-----------------------------------------------------------------------------
(* config.py *)

TOTAL_SURAHS == 114
WORD_DELIMITER == <<32>>

-----------------------------------------------------------------------------
(* data/tokenizer.py *)

\* string.punctuation plus the Arabic question mark and the Arabic comma
BOUNDARY_CHARS ==
    (33..47) \cup (58..64) \cup (91..96) \cup (123..126) \cup {1567, 1548}

IsPrefixAt(text, d, i) ==
    /\ i + Len(d) - 1 <= Len(text)
    /\ \A k \in 1..Len(d) : text[i + k - 1] = d[k]

\* str.split(delimiter) for a non-empty delimiter: the pieces between the
\* non-overlapping occurrences of the delimiter, scanned left to right.
RECURSIVE SplitFrom(_, _, _, _)
SplitFrom(text, d, i, cur) ==
    IF i > Len(text) THEN <<cur>>
    ELSE IF IsPrefixAt(text, d, i)
         THEN <<cur>> \o SplitFrom(text, d, i + Len(d), <<>>)
         ELSE SplitFrom(text, d, i + 1, Append(cur, text[i]))

Split(text, d) == SplitFrom(text, d, 1, <<>>)

RECURSIVE LStrip(_, _)
LStrip(s, chars) ==
    IF s # <<>> /\ Head(s) \in chars THEN LStrip(Tail(s), chars) ELSE s

RECURSIVE RStrip(_, _)
RStrip(s, chars) ==
    IF s # <<>> /\ s[Len(s)] \in chars
    THEN RStrip(SubSeq(s, 1, Len(s) - 1), chars) ELSE s

\* strip() trimming the left end only
Strip_left_only(s, chars) == LStrip(s, chars)

\* str.strip(chars)
Strip(s, chars) == RStrip(LStrip(s, chars), chars)

RECURSIVE StripAndKeep(_)
StripAndKeep(tokens) ==
    IF tokens = <<>> THEN <<>>
    ELSE LET word == Strip(Head(tokens), BOUNDARY_CHARS)
         IN (IF word # <<>> THEN <<word>> ELSE <<>>) \o StripAndKeep(Tail(tokens))

\* tokenize_ayah(ayah_text, delimiter): an empty delimiter makes str.split
\* raise ValueError, which is re-raised as TokenizationError.
tokenize_ayah(ayah_text, delimiter) ==
    IF ayah_text = <<>> THEN Ok(<<>>)
    ELSE IF delimiter = <<>> THEN Fail("TokenizationError")
    ELSE Ok(StripAndKeep(Split(ayah_text, delimiter)))

-----------------------------------------------------------------------------
(* data/normalizer.py *)

ARABIC_DIACRITICS ==
    <<1611, 1612, 1613, 1614, 1615, 1616, 1617, 1618, 1619, 1620, 1621,
      1622, 1623, 1624, 1648>>

\* dict items in insertion order: <<original, normalized>>
HAMZA_FORMS ==
    << <<1571, 1575>>, <<1573, 1575>>, <<1570, 1575>>, <<1572, 1608>>,
       <<1574, 1610>> >>

ALEF_FORMS ==
    << <<1571, 1575>>, <<1573, 1575>>, <<1570, 1575>>, <<1649, 1575>> >>

TAA_MARBUTA == 1577
TAA == 1607

\* str.replace(old, new) for single characters; new = <<>> deletes
RECURSIVE Replace(_, _, _)
Replace(text, old, new) ==
    IF text = <<>> THEN <<>>
    ELSE (IF Head(text) = old THEN new ELSE <<Head(text)>>)
         \o Replace(Tail(text), old, new)

RECURSIVE RemoveEach(_, _)
RemoveEach(text, marks) ==
    IF marks = <<>> THEN text
    ELSE RemoveEach(Replace(text, Head(marks), <<>>), Tail(marks))

RECURSIVE ReplaceEach(_, _)
ReplaceEach(text, table) ==
    IF table = <<>> THEN text
    ELSE ReplaceEach(Replace(text, Head(table)[1], <<Head(table)[2]>>), Tail(table))

remove_diacritics(text) == RemoveEach(text, ARABIC_DIACRITICS)

\* Hamza folding with waw-hamza folded to alef-hamza, a form the table has
\* already passed when it gets there
normalize_hamza_chained(text) ==
    ReplaceEach(text, << <<1571, 1575>>, <<1573, 1575>>, <<1570, 1575>>,
                         <<1572, 1571>>, <<1574, 1610>> >>)

normalize_hamza(text) == ReplaceEach(text, HAMZA_FORMS)

\* Alef folding with alef wasla folded to alef-hamza, a form hamza folding
\* folds again
normalize_alef_to_hamza_form(text) ==
    ReplaceEach(text, << <<1571, 1575>>, <<1573, 1575>>, <<1570, 1575>>, <<1649, 1571>> >>)

normalize_alef(text) == ReplaceEach(text, ALEF_FORMS)
normalize_taa_marbuta(text) == Replace(text, TAA_MARBUTA, <<TAA>>)

\* The pipeline with the alef step run whatever its flag says
normalize_text_always_alef(text, remove_diacritics_flag, normalize_hamza_flag, normalize_alef_flag, normalize_taa_marbuta_flag) ==
    IF text = <<>> THEN text
    ELSE LET t1 == IF remove_diacritics_flag THEN remove_diacritics(text) ELSE text
             t2 == IF normalize_hamza_flag THEN normalize_hamza(t1) ELSE t1
             t3 == normalize_alef(t2)
             t4 == IF normalize_taa_marbuta_flag THEN normalize_taa_marbuta(t3) ELSE t3
         IN t4

\* normalize_text: the enabled steps in the order of the code; empty text is
\* returned as it is
normalize_text(text, remove_diacritics_flag, normalize_hamza_flag, normalize_alef_flag, normalize_taa_marbuta_flag) ==
    IF text = <<>> THEN text
    ELSE LET t1 == IF remove_diacritics_flag THEN remove_diacritics(text) ELSE text
             t2 == IF normalize_hamza_flag THEN normalize_hamza(t1) ELSE t1
             t3 == IF normalize_alef_flag THEN normalize_alef(t2) ELSE t2
             t4 == IF normalize_taa_marbuta_flag THEN normalize_taa_marbuta(t3) ELSE t3
         IN t4

\* The four step functions by name, and a caller applying some of them one
\* after the other in an order of its choosing
StepNames == {"remove_diacritics", "normalize_hamza", "normalize_alef", "normalize_taa_marbuta"}

ApplyStep(step, text) ==
    CASE step = "remove_diacritics" -> remove_diacritics(text)
      [] step = "normalize_hamza" -> normalize_hamza(text)
      [] step = "normalize_alef" -> normalize_alef(text)
      [] step = "normalize_taa_marbuta" -> normalize_taa_marbuta(text)

RECURSIVE ApplySteps(_, _)
ApplySteps(order, text) ==
    IF order = <<>> THEN text
    ELSE ApplySteps(Tail(order), ApplyStep(Head(order), text))

\* normalize_text(text) with every flag at its default (True)
normalize_default(text) == normalize_text(text, TRUE, TRUE, TRUE, TRUE)

-----------------------------------------------------------------------------
(* linguistics/buckwalter.py *)

\* The table with taa marbuta written as h, the symbol of heh
ARABIC_TO_BUCKWALTER_MAP_collision ==
    { <<1576, 98>>, <<1577, 104>>, <<1607, 104>>, <<1614, 97>>, <<1571, 62>>,
      <<1572, 38>>, <<1649, 123>> }

\* <<Arabic code point, Buckwalter ASCII code point>>
ARABIC_TO_BUCKWALTER_MAP ==
    { <<1569, 39>>, <<1570, 124>>, <<1571, 62>>, <<1572, 38>>, <<1573, 60>>,
      <<1574, 125>>, <<1575, 65>>, <<1576, 98>>, <<1577, 112>>, <<1578, 116>>,
      <<1579, 118>>, <<1580, 106>>, <<1581, 72>>, <<1582, 120>>, <<1583, 100>>,
      <<1584, 42>>, <<1585, 114>>, <<1586, 122>>, <<1587, 115>>, <<1588, 36>>,
      <<1589, 83>>, <<1590, 68>>, <<1591, 84>>, <<1592, 90>>, <<1593, 69>>,
      <<1594, 103>>, <<1600, 95>>, <<1601, 102>>, <<1602, 113>>, <<1603, 107>>,
      <<1604, 108>>, <<1605, 109>>, <<1606, 110>>, <<1607, 104>>, <<1608, 119>>,
      <<1609, 89>>, <<1610, 121>>,
      <<1611, 70>>, <<1612, 78>>, <<1613, 75>>, <<1614, 97>>, <<1615, 117>>,
      <<1616, 105>>, <<1617, 126>>, <<1618, 111>>, <<1619, 94>>, <<1620, 35>>,
      <<1648, 96>>,
      <<1649, 123>> }

ArabicToBuckwalterChar(ch) ==
    IF \E p \in ARABIC_TO_BUCKWALTER_MAP : p[1] = ch
    THEN (CHOOSE p \in ARABIC_TO_BUCKWALTER_MAP : p[1] = ch)[2]
    ELSE ch

arabic_to_buckwalter(text) == [i \in 1..Len(text) |-> ArabicToBuckwalterChar(text[i])]

\* The reverse table: {v: k for k, v in ARABIC_TO_BUCKWALTER_MAP.items()}
BUCKWALTER_TO_ARABIC_MAP == {<<p[2], p[1]>> : p \in ARABIC_TO_BUCKWALTER_MAP}

BuckwalterToArabicChar(ch) ==
    IF \E p \in BUCKWALTER_TO_ARABIC_MAP : p[1] = ch
    THEN (CHOOSE p \in BUCKWALTER_TO_ARABIC_MAP : p[1] = ch)[2]
    ELSE ch

buckwalter_to_arabic(text) == [i \in 1..Len(text) |-> BuckwalterToArabicChar(text[i])]

-----------------------------------------------------------------------------
(* core/ayah.py, core/surah.py, core/word.py: validating constructors *)

\* Ayah(surah_number, ayah_number, text, number_in_quran); __post_init__
\* raises ValueError
Ayah(surah_number, ayah_number, text, number_in_quran) ==
    IF surah_number < 1 \/ surah_number > 114 THEN Fail("ValueError")
    ELSE IF ayah_number < 1 THEN Fail("ValueError")
    ELSE IF text = <<>> THEN Fail("ValueError")
    ELSE IF number_in_quran # None /\ number_in_quran[1] < 1 THEN Fail("ValueError")
    ELSE Ok([surah_number |-> surah_number, ayah_number |-> ayah_number,
             text |-> text, number_in_quran |-> number_in_quran])

Surah_any_ayahs(number, name, ayahs, english_name, revelation_type) ==
    IF number < 1 \/ number > 114 THEN Fail("ValueError")
    ELSE IF name = <<>> THEN Fail("ValueError")
    ELSE IF ayahs = <<>> THEN Fail("ValueError")
    ELSE Ok([number |-> number, name |-> name, ayahs |-> ayahs,
             english_name |-> english_name, revelation_type |-> revelation_type])

\* Surah(number, name, ayahs, english_name, revelation_type)
Surah(number, name, ayahs, english_name, revelation_type) ==
    IF number < 1 \/ number > 114 THEN Fail("ValueError")
    ELSE IF name = <<>> THEN Fail("ValueError")
    ELSE IF ayahs = <<>> THEN Fail("ValueError")
    ELSE IF \E k \in DOMAIN ayahs : ayahs[k].surah_number # number
         THEN Fail("ValueError")
    ELSE Ok([number |-> number, name |-> name, ayahs |-> ayahs,
             english_name |-> english_name, revelation_type |-> revelation_type])

\* Surah.ayah_count
ayah_count(surah) == Len(surah.ayahs)

\* Word(surah_number, ayah_number, position, text, normalized, buckwalter, root, lemma)
Word(surah_number, ayah_number, position, text, normalized, buckwalter, root, lemma) ==
    IF surah_number < 1 \/ surah_number > 114 THEN Fail("ValueError")
    ELSE IF ayah_number < 1 THEN Fail("ValueError")
    ELSE IF position < 0 THEN Fail("ValueError")
    ELSE IF text = <<>> THEN Fail("ValueError")
    ELSE IF normalized = <<>> THEN Fail("ValueError")
    ELSE IF buckwalter = <<>> THEN Fail("ValueError")
    ELSE Ok([surah_number |-> surah_number, ayah_number |-> ayah_number,
             position |-> position, text |-> text, normalized |-> normalized,
             buckwalter |-> buckwalter, root |-> root, lemma |-> lemma])

\* Word.location
location(w) == <<w.surah_number, w.ayah_number, w.position>>

-----------------------------------------------------------------------------
(* The dataset: one JSON document per chapter file surah_<n>.json *)

\* A sample text
TxtB == <<1576>>                                 \* beh

\* config.py: the document keys it defines.  The loader reads the first two.
SURAH_NUMBER_KEY == "index"
SURAH_NAME_KEY == "name"
VERSE_KEY == "verse"
COUNT_KEY == "count"

\* The file's state: absent, present but not JSON, or a parsed JSON object
\* with its set of keys and the value under "index"
DocMissing == [kind |-> "missing"]
DocBadJson == [kind |-> "badjson"]
Doc(keys, index) == [kind |-> "dict", keys |-> keys, index |-> index]

\* The keys of a chapter document in the scheme config.py names
DatasetKeys == {SURAH_NUMBER_KEY, SURAH_NAME_KEY, VERSE_KEY, COUNT_KEY}

\* A complete document of chapter n, and one that keeps its verse list
\* under "ayahs"
DocA(n) == Doc(DatasetKeys, n)
DocAyahs(n) == Doc({SURAH_NUMBER_KEY, SURAH_NAME_KEY, "ayahs"}, n)

\* The documents written into chapter file n: no file, no JSON, no key at
\* all, a key missing, only the two keys the loader finds, another chapter's
\* index, and the two complete documents
Docs(n) ==
    { DocMissing, DocBadJson,
      Doc({}, n),
      Doc(DatasetKeys \ {SURAH_NUMBER_KEY}, n),
      Doc(DatasetKeys \ {SURAH_NAME_KEY}, n),
      Doc({SURAH_NUMBER_KEY, SURAH_NAME_KEY}, n),
      Doc(DatasetKeys, n + 1),
      DocA(n), DocAyahs(n) }

\* The chapter files whose content varies; every other chapter file holds
\* the complete document DocA.
VariedChapters == {1, 2}

FileAt(fs, n) == IF n \in DOMAIN fs THEN fs[n] ELSE DocA(n)

-----------------------------------------------------------------------------
(* data/quranjson_loader.py *)

\* _validate_surah_data: "ok" or the exception raised.  The third check
\* reads AYAHS_KEY.  The module takes that name, AYAH_NUMBER_KEY and
\* AYAH_TEXT_KEY from config, and config.py defines none of them (its keys
\* are SURAH_NUMBER_KEY, SURAH_NAME_KEY, VERSE_KEY and COUNT_KEY), so a
\* document that has "index" and "name" ends the call with NameError and
\* the checks after it never run.
validate_surah_data(data, surah_number) ==
    IF SURAH_NUMBER_KEY \notin data.keys THEN "DataValidationError"
    ELSE IF SURAH_NAME_KEY \notin data.keys THEN "DataValidationError"
    ELSE "NameError"

\* load_surah: the number and the file are checked, the document is
\* validated, and the loop over data[AYAHS_KEY] reads the undefined name
\* again
load_surah(fs, surah_number) ==
    IF surah_number < 1 \/ surah_number > TOTAL_SURAHS THEN Fail("DataLoadError")
    ELSE LET data == FileAt(fs, surah_number)
         IN IF data.kind = "missing" THEN Fail("DataLoadError")
            ELSE IF data.kind = "badjson" THEN Fail("DataLoadError")
            ELSE LET v == validate_surah_data(data, surah_number)
                 IN IF v # "ok" THEN Fail(v)
                    ELSE Fail("NameError")

\* The loop skipping the chapters that fail to load
LoadRange_partial(fs, start, end) ==
    LET loaded == [n \in start..end |-> load_surah(fs, n)]
        good == Ascending({n \in start..end : loaded[n].ok})
    IN Ok([k \in DOMAIN good |-> loaded[good[k]].val])

\* The loop of load_all_surahs: the first chapter that fails to load ends
\* the call with its exception, otherwise the chapters come back in order
LoadRange(fs, start, end) ==
    LET loaded == [n \in start..end |-> load_surah(fs, n)]
        failed == {n \in start..end : ~loaded[n].ok}
    IN IF failed # {} THEN Fail(loaded[MinOf(failed)].err)
       ELSE Ok([k \in 1..(end - start + 1) |-> loaded[start + k - 1].val])

\* load_all_surahs(start, end); end is Optional and defaults to TOTAL_SURAHS
load_all_surahs(fs, start, end_opt) ==
    LET end == IF end_opt = None THEN TOTAL_SURAHS ELSE end_opt[1]
    IN IF start < 1 \/ start > TOTAL_SURAHS THEN Fail("DataLoadError")
       ELSE IF end < 1 \/ end > TOTAL_SURAHS THEN Fail("DataLoadError")
       ELSE IF start > end THEN Fail("DataLoadError")
       ELSE LoadRange(fs, start, end)

\* verify_dataset: the loop over 1..TOTAL_SURAHS.  A file that does not exist
\* is listed missing; otherwise load_surah runs, and only DataLoadError and
\* DataValidationError are caught: any other exception ends the call.
verify_dataset(fs) ==
    LET all == 1..TOTAL_SURAHS
        missing == {n \in all : FileAt(fs, n).kind = "missing"}
        loaded == [n \in all \ missing |-> load_surah(fs, n)]
        valid == {n \in all \ missing : loaded[n].ok}
        invalid == {n \in all \ missing :
                       loaded[n].err \in {"DataLoadError", "DataValidationError"}}
        escaping == (all \ missing) \ (valid \cup invalid)
        valid_seq == Ascending(valid)
        invalid_seq == Ascending(invalid)
    IN IF escaping # {} THEN Fail(loaded[MinOf(escaping)].err)
       ELSE Ok([total_surahs |-> Cardinality(valid),
                missing_surahs |-> Ascending(missing),
                invalid_surahs |->
                    [k \in DOMAIN invalid_seq |->
                        <<invalid_seq[k], loaded[invalid_seq[k]].err>>],
                total_ayahs |->
                    SumRange([k \in DOMAIN valid_seq |->
                                 ayah_count(loaded[valid_seq[k]].val)],
                             1, Cardinality(valid))])

-----------------------------------------------------------------------------
(* core/filters.py: the part of WordFilter that Corpus uses *)

\* WordFilter(words).by_surah(surah_number).get()
by_surah(words, surah_number) ==
    IF surah_number < 1 \/ surah_number > 114 THEN Fail("FilterError")
    ELSE Ok(SelectSeq(words, LAMBDA w : w.surah_number = surah_number))

by_ayah_skipping_first(words, surah_number, ayah_number) ==
    IF surah_number < 1 \/ surah_number > 114 THEN Fail("FilterError")
    ELSE IF ayah_number < 1 THEN Fail("FilterError")
    ELSE Ok(SelectSeq(IF words = <<>> THEN <<>> ELSE Tail(words),
                      LAMBDA w : w.surah_number = surah_number /\ w.ayah_number = ayah_number))

\* WordFilter(words).by_ayah(surah_number, ayah_number).get()
by_ayah(words, surah_number, ayah_number) ==
    IF surah_number < 1 \/ surah_number > 114 THEN Fail("FilterError")
    ELSE IF ayah_number < 1 THEN Fail("FilterError")
    ELSE Ok(SelectSeq(words, LAMBDA w : w.surah_number = surah_number /\ w.ayah_number = ayah_number))

\* WordFilter(words).by_text(text, normalized).get()
by_text(words, text, normalized) ==
    IF normalized THEN Ok(SelectSeq(words, LAMBDA w : w.normalized = text))
    ELSE Ok(SelectSeq(words, LAMBDA w : w.text = text))

\* substring in s
Contains(s, substring) == \E i \in 1..(Len(s) + 1) : IsPrefixAt(s, substring, i)

by_text_contains_at_start(words, substring, normalized) ==
    IF normalized THEN Ok(SelectSeq(words, LAMBDA w : IsPrefixAt(w.normalized, substring, 1)))
    ELSE Ok(SelectSeq(words, LAMBDA w : IsPrefixAt(w.text, substring, 1)))

\* WordFilter(words).by_text_contains(substring, normalized).get()
by_text_contains(words, substring, normalized) ==
    IF normalized THEN Ok(SelectSeq(words, LAMBDA w : Contains(w.normalized, substring)))
    ELSE Ok(SelectSeq(words, LAMBDA w : Contains(w.text, substring)))

\* WordFilter(words).by_root(root).get(); root is a string
by_root(words, root) == Ok(SelectSeq(words, LAMBDA w : w.root = Some(root)))

\* WordFilter(words).by_lemma(lemma).get(); lemma is a string
by_lemma(words, lemma) == Ok(SelectSeq(words, LAMBDA w : w.lemma = Some(lemma)))

\* The exception classes that derive from BaseException but not from Exception
NotDerivedFromException == {"KeyboardInterrupt", "SystemExit", "GeneratorExit"}

\* Callables a caller may pass to by_custom:
\*   in_first_surah   lambda w: w.surah_number == 1
\*   root             lambda w: w.root             (the value's truthiness counts)
\*   root_length      lambda w: len(w.root) > 0    (TypeError on an absent root)
\*   interrupted      returns True, but raises KeyboardInterrupt on a word of surah 2
Predicates == {"in_first_surah", "root", "root_length", "interrupted"}

\* predicate(w): the truth value it yields, or the exception it raises
ApplyPredicate(predicate, w) ==
    CASE predicate = "in_first_surah" -> Ok(w.surah_number = 1)
      [] predicate = "root" -> Ok(w.root # None /\ w.root[1] # <<>>)
      [] predicate = "root_length" ->
            IF w.root = None THEN Fail("TypeError") ELSE Ok(Len(w.root[1]) > 0)
      [] predicate = "interrupted" ->
            IF w.surah_number = 2 THEN Fail("KeyboardInterrupt") ELSE Ok(TRUE)

by_custom_unwrapped(words, predicate) ==
    LET raising == {i \in DOMAIN words : ~ApplyPredicate(predicate, words[i]).ok}
    IN IF raising = {}
       THEN Ok(SelectSeq(words, LAMBDA w : ApplyPredicate(predicate, w).val))
       ELSE Fail(ApplyPredicate(predicate, words[MinOf(raising)]).err)

\* WordFilter(words).by_custom(predicate).get(): the comprehension stops at the
\* first word on which the predicate raises; `except Exception` wraps what
\* derives from Exception and lets the rest through
by_custom(words, predicate) ==
    LET raising == {i \in DOMAIN words : ~ApplyPredicate(predicate, words[i]).ok}
    IN IF raising = {}
       THEN Ok(SelectSeq(words, LAMBDA w : ApplyPredicate(predicate, w).val))
       ELSE IF ApplyPredicate(predicate, words[MinOf(raising)]).err \in NotDerivedFromException
            THEN Fail(ApplyPredicate(predicate, words[MinOf(raising)]).err)
            ELSE Fail("FilterError")

\* f.by_surah(c).by_ayah(c, v).get(); a failing first call ends the chain
by_surah_then_by_ayah(words, c, v) ==
    IF ~by_surah(words, c).ok THEN by_surah(words, c)
    ELSE by_ayah(by_surah(words, c).val, c, v)

\* f.by_ayah(c, v).by_surah(c).get()
by_ayah_then_by_surah(words, c, v) ==
    IF ~by_ayah(words, c, v).ok THEN by_ayah(words, c, v)
    ELSE by_surah(by_ayah(words, c, v).val, c)

-----------------------------------------------------------------------------
(* core/corpus.py *)

\* The loop of _process_ayah over the tokens; position is zero-based
RECURSIVE ProcessTokens(_, _, _, _)
ProcessTokens(ayah, tokens, position, words) ==
    IF position >= Len(tokens) THEN Ok(words)
    ELSE LET text == tokens[position + 1]
             normalized == normalize_default(text)
             buckwalter == arabic_to_buckwalter(text)
             word == Word(ayah.surah_number, ayah.ayah_number, position, text,
                          normalized, buckwalter, None, None)
         IN IF ~word.ok THEN Fail(word.err)
            ELSE ProcessTokens(ayah, tokens, position + 1, Append(words, word.val))

process_ayah(ayah) ==
    LET tokens == tokenize_ayah(ayah.text, WORD_DELIMITER)
    IN IF ~tokens.ok THEN Fail(tokens.err)
       ELSE ProcessTokens(ayah, tokens.val, 0, <<>>)

\* The inner loop of build() over the ayahs of one surah
RECURSIVE SurahWords(_, _, _)
SurahWords(surah, j, words) ==
    IF j > Len(surah.ayahs) THEN Ok(words)
    ELSE LET ayah_words == process_ayah(surah.ayahs[j])
         IN IF ~ayah_words.ok THEN Fail(ayah_words.err)
            ELSE SurahWords(surah, j + 1, words \o ayah_words.val)

\* The word lists of the surahs joined in order; the first surah whose words
\* could not be built ends the loop with its exception
JoinWords(per, n) ==
    LET failed == {i \in 1..n : ~per[i].ok}
    IN IF failed # {} THEN Fail(per[MinOf(failed)].err)
       ELSE Ok(ConcatRange([i \in 1..n |-> per[i].val], 1, n))

\* The outer loop of build() over the surahs, in list order
BuildWords(surahs) ==
    JoinWords([i \in DOMAIN surahs |-> SurahWords(surahs[i], 1, <<>>)], Len(surahs))

\* build() after the chapters are loaded: self._surahs is already assigned
\* when the word list is built, self._words only once it is complete
BuildWordStage(surahs, words, old_words) ==
    IF ~words.ok
    THEN [surahs |-> Some(surahs), words |-> old_words,
          ret |-> Fail("QuranalyzeError"), stage |-> "words"]
    ELSE [surahs |-> Some(surahs), words |-> Some(words.val),
          ret |-> Ok(None), stage |-> "done"]

\* build() emptying both fields when the chapters do not load
BuildLoadStage_clearing(surahs, old_surahs, old_words) ==
    IF ~surahs.ok
    THEN [surahs |-> Some(<<>>), words |-> Some(<<>>),
          ret |-> Fail("QuranalyzeError"), stage |-> "load"]
    ELSE BuildWordStage(surahs.val, BuildWords(surahs.val), old_words)

\* build() from the outcome of load_all_surahs()
BuildLoadStage(surahs, old_surahs, old_words) ==
    IF ~surahs.ok
    THEN [surahs |-> old_surahs, words |-> old_words,
          ret |-> Fail("QuranalyzeError"), stage |-> "load"]
    ELSE BuildWordStage(surahs.val, BuildWords(surahs.val), old_words)

\* build() with self._surahs set to an empty tuple before the chapters
\* are loaded
build_surahs_first(fs, old_surahs, old_words) ==
    BuildLoadStage(load_all_surahs(fs, 1, None), Some(<<>>), old_words)

\* build(): the fields after the call and its outcome; any exception is
\* re-raised as QuranalyzeError
build(fs, old_surahs, old_words) ==
    BuildLoadStage(load_all_surahs(fs, 1, None), old_surahs, old_words)

\* surahs without the "not built" check: an unbuilt corpus looks empty
surahs_prop_unchecked(cs) == IF cs = None THEN Ok(<<>>) ELSE Ok(cs[1])

\* Corpus.surahs / Corpus.words properties
surahs_prop(cs) == IF cs = None THEN Fail("QuranalyzeError") ELSE Ok(cs[1])
words_prop(cw) == IF cw = None THEN Fail("QuranalyzeError") ELSE Ok(cw[1])

\* Surah.get_ayah: the first ayah with that number, or None
surah_get_ayah(surah, ayah_number) ==
    LET hits == {i \in DOMAIN surah.ayahs : surah.ayahs[i].ayah_number = ayah_number}
    IN IF hits = {} THEN None ELSE Some(surah.ayahs[MinOf(hits)])

\* get_surah: the first surah with that number, or None
get_surah(cs, surah_number) ==
    LET ss == surahs_prop(cs)
    IN IF ~ss.ok THEN ss
       ELSE LET hits == {i \in DOMAIN ss.val : ss.val[i].number = surah_number}
            IN IF hits = {} THEN Ok(None) ELSE Ok(Some(ss.val[MinOf(hits)]))

get_ayah(cs, surah_number, ayah_number) ==
    LET surah == get_surah(cs, surah_number)
    IN IF ~surah.ok THEN surah
       ELSE IF surah.val # None THEN Ok(surah_get_ayah(surah.val[1], ayah_number))
       ELSE Ok(None)

\* filter_words(): a WordFilter over the corpus word list
filter_words(cw) ==
    LET ws == words_prop(cw)
    IN IF ~ws.ok THEN ws ELSE Ok([words |-> ws.val])

total_words(cw) ==
    LET ws == words_prop(cw) IN IF ~ws.ok THEN ws ELSE Ok(Len(ws.val))

total_surahs(cs) ==
    LET ss == surahs_prop(cs) IN IF ~ss.ok THEN ss ELSE Ok(Len(ss.val))

total_ayahs(cs) ==
    LET ss == surahs_prop(cs)
    IN IF ~ss.ok THEN ss
       ELSE Ok(SumRange([i \in 1..Len(ss.val) |-> ayah_count(ss.val[i])], 1, Len(ss.val)))

\* word_count_by_surah(): one dict entry per surah number, holding the length
\* of filter_words().by_surah(number).get(); the first failing filter ends it
word_count_by_surah(cs, cw) ==
    LET ss == surahs_prop(cs)
    IN IF ~ss.ok THEN ss
       ELSE IF ss.val = <<>> THEN Ok(<<>>)
       ELSE LET f == filter_words(cw)
            IN IF ~f.ok THEN f
               ELSE LET numbers == {ss.val[i].number : i \in DOMAIN ss.val}
                        per == [n \in numbers |-> by_surah(f.val.words, n)]
                        failed == {i \in DOMAIN ss.val : ~per[ss.val[i].number].ok}
                    IN IF failed # {} THEN Fail(per[ss.val[MinOf(failed)].number].err)
                       ELSE Ok([n \in numbers |-> Len(per[n].val)])

-----------------------------------------------------------------------------
(* core/relations.py.  Weights are floats in the code; here they are counted
   in tenths, so 1.0 is 10. *)

DEFAULT_RELATION_WEIGHT == 10
DEFAULT_ROOT_WEIGHT == 10
DEFAULT_LEMMA_WEIGHT == 5
DEFAULT_NORMALIZED_WEIGHT == 8

\* WordRelation(word1, word2, relation_type, weight, metadata)
\* float("nan") as a weight: a float that is not a number, for which
\* "weight < 0.0" and "weight > 1.0" are both False.  The model writes it as
\* a number no weight in tenths takes.
NaN == 1000

WordRelation(word1, word2, relation_type, weight, metadata) ==
    IF weight # NaN /\ (weight < 0 \/ weight > 10) THEN Fail("ValueError")
    ELSE IF relation_type = "" THEN Fail("ValueError")
    ELSE Ok([word1 |-> word1, word2 |-> word2, relation_type |-> relation_type,
             weight |-> weight, metadata |-> metadata])

\* add_relation putting the new relation at the front of the list
add_relation_front(relations, word1, word2, relation_type, weight, metadata) ==
    LET relation == WordRelation(word1, word2, relation_type, weight, metadata)
    IN IF ~relation.ok THEN [relations |-> relations, ret |-> Fail(relation.err)]
       ELSE [relations |-> <<relation.val>> \o relations, ret |-> Ok(None)]

\* add_relation: the list after the call and the outcome
add_relation(relations, word1, word2, relation_type, weight, metadata) ==
    LET relation == WordRelation(word1, word2, relation_type, weight, metadata)
    IN IF ~relation.ok THEN [relations |-> relations, ret |-> Fail(relation.err)]
       ELSE [relations |-> Append(relations, relation.val), ret |-> Ok(None)]

\* The dict of groups a pass builds: keys[i] is the feature of words[i], or
\* None when the word is left out.  The dict keeps its keys in the order of
\* their first insertion and each group in the order of the words.
GroupKeyOrder(keys) ==
    Ascending({i \in DOMAIN keys :
                  keys[i] # None /\ \A j \in 1..(i - 1) : keys[j] # keys[i]})

GroupOf(words, keys, key) ==
    LET members == Ascending({i \in DOMAIN keys : keys[i] = key})
    IN [k \in DOMAIN members |-> words[members[k]]]

\* for i, word1 in enumerate(group_words): for word2 in group_words[i + 1:]
GroupPairs(group_words) ==
    ConcatRange([i \in DOMAIN group_words |->
                    [k \in 1..(Len(group_words) - i) |->
                        <<group_words[i], group_words[i + k]>>]],
                1, Len(group_words))

\* The second loop of a pass: add_relation for each pair of each group, in
\* dict order; the first add_relation that raises ends the pass
RECURSIVE AddPairs(_, _, _, _, _, _)
AddPairs(relations, pairs, relation_type, weight, meta_key, meta_value) ==
    IF pairs = <<>> THEN [relations |-> relations, ret |-> Ok(None)]
    ELSE LET added == add_relation(relations, Head(pairs)[1], Head(pairs)[2],
                                   relation_type, weight,
                                   Some([key |-> meta_key, value |-> meta_value]))
         IN IF ~added.ret.ok THEN added
            ELSE AddPairs(added.relations, Tail(pairs), relation_type, weight,
                          meta_key, meta_value)

RECURSIVE AddGroups(_, _, _, _, _, _, _, _)
AddGroups(relations, words, keys, order, k, relation_type, weight, meta_key) ==
    IF k > Len(order) THEN [relations |-> relations, ret |-> Ok(None)]
    ELSE LET key == keys[order[k]]
             done == AddPairs(relations, GroupPairs(GroupOf(words, keys, key)),
                              relation_type, weight, meta_key, key[1])
         IN IF ~done.ret.ok THEN done
            ELSE AddGroups(done.relations, words, keys, order, k + 1,
                           relation_type, weight, meta_key)

\* "if word.root:" holds for a root that is neither None nor the empty string
Truthy(opt) == opt # None /\ opt[1] # <<>>

build_root_relations(relations, words, min_weight) ==
    LET keys == [i \in DOMAIN words |->
                    IF Truthy(words[i].root) THEN words[i].root ELSE None]
    IN AddGroups(relations, words, keys, GroupKeyOrder(keys), 1,
                 "shared_root", min_weight, "root")

build_lemma_relations(relations, words, min_weight) ==
    LET keys == [i \in DOMAIN words |->
                    IF Truthy(words[i].lemma) THEN words[i].lemma ELSE None]
    IN AddGroups(relations, words, keys, GroupKeyOrder(keys), 1,
                 "shared_lemma", min_weight, "lemma")

\* Every word is grouped; "if len(group_words) > 1" skips groups that have
\* no pair anyway
build_normalized_text_relations(relations, words, weight) ==
    LET keys == [i \in DOMAIN words |-> Some(words[i].normalized)]
    IN AddGroups(relations, words, keys, GroupKeyOrder(keys), 1,
                 "identical_normalized", weight, "normalized_text")

get_relations(relations) == relations
clear(relations) == <<>>
count(relations) == Len(relations)

-----------------------------------------------------------------------------
(* graph/graph_builder.py *)

\* WordGraph(): nodes is the dict as the sequence of its items in insertion
\* order, each a word with its attribute dict (a set of key-value pairs);
\* edges is the list of tuples (word1, word2, weight, relation_type)
WordGraph == [nodes |-> <<>>, edges |-> <<>>]

add_node_overwriting(graph, word, attributes) ==
    IF \E i \in DOMAIN graph.nodes : graph.nodes[i].word = word
    THEN [graph EXCEPT !.nodes = [i \in DOMAIN @ |->
                                    IF @[i].word = word THEN [word |-> word, attributes |-> attributes]
                                    ELSE @[i]]]
    ELSE [graph EXCEPT !.nodes = Append(@, [word |-> word, attributes |-> attributes])]

\* WordGraph.add_node(word, **attributes)
add_node(graph, word, attributes) ==
    IF \E i \in DOMAIN graph.nodes : graph.nodes[i].word = word THEN graph
    ELSE [graph EXCEPT !.nodes = Append(@, [word |-> word, attributes |-> attributes])]

\* WordGraph.add_edge(word1, word2, weight, relation_type)
add_edge(graph, word1, word2, weight, relation_type) ==
    [add_node(add_node(graph, word1, {}), word2, {})
        EXCEPT !.edges = Append(@, <<word1, word2, weight, relation_type>>)]

\* A loop of add_edge calls over the tuples edges[k], edges[k + 1], ...
RECURSIVE AddEdges(_, _, _)
AddEdges(graph, edges, k) ==
    IF k > Len(edges) THEN graph
    ELSE AddEdges(add_edge(graph, edges[k][1], edges[k][2], edges[k][3], edges[k][4]),
                  edges, k + 1)

\* The first loop of subgraph: the words of the list that are nodes of the
\* graph, each once, at its first place in the list, with the graph's
\* attributes for it
SubgraphNodes(graph, words) ==
    LET firsts == Ascending({i \in DOMAIN words :
                    /\ \E n \in DOMAIN graph.nodes : graph.nodes[n].word = words[i]
                    /\ \A j \in 1..(i - 1) : words[j] # words[i]})
    IN [k \in DOMAIN firsts |->
            graph.nodes[CHOOSE n \in DOMAIN graph.nodes : graph.nodes[n].word = words[firsts[k]]]]

subgraph_either_endpoint(graph, words) ==
    AddEdges([nodes |-> SubgraphNodes(graph, words), edges |-> <<>>],
             SelectSeq(graph.edges, LAMBDA e : e[1] \in Range(words) \/ e[2] \in Range(words)), 1)

\* WordGraph.subgraph(words)
subgraph(graph, words) ==
    AddEdges([nodes |-> SubgraphNodes(graph, words), edges |-> <<>>],
             SelectSeq(graph.edges, LAMBDA e : e[1] \in Range(words) /\ e[2] \in Range(words)), 1)

\* The add_edge arguments build_from_relations takes from a relation
EdgeOf(relation) == <<relation.word1, relation.word2, relation.weight, relation.relation_type>>

build_from_relations_merging(relations) ==
    Ok(AddEdges(WordGraph,
                [k \in DOMAIN Ascending({i \in DOMAIN relations :
                        \A j \in 1..(i - 1) :
                            {relations[j].word1, relations[j].word2}
                                # {relations[i].word1, relations[i].word2}}) |->
                    EdgeOf(relations[Ascending({i \in DOMAIN relations :
                        \A j \in 1..(i - 1) :
                            {relations[j].word1, relations[j].word2}
                                # {relations[i].word1, relations[i].word2}})[k]])],
                1))

\* GraphBuilder.build_from_relations(relations): the graph that becomes
\* self.graph and is returned
build_from_relations(relations) ==
    Ok(AddEdges(WordGraph, [k \in DOMAIN relations |-> EdgeOf(relations[k])], 1))

\* WordGraph.get_neighbors(word): for each edge in order, the other end when
\* word1 == word, else ("elif") word1 when word2 == word
get_neighbors(graph, word) ==
    LET touching == SelectSeq(graph.edges, LAMBDA e : e[1] = word \/ e[2] = word)
    IN [k \in DOMAIN touching |->
            IF touching[k][1] = word THEN touching[k][2] ELSE touching[k][1]]

\* WordGraph.get_edges_for_word(word)
get_edges_for_word(graph, word) ==
    SelectSeq(graph.edges, LAMBDA edge : word \in {edge[1], edge[2]})

node_count(graph) == Len(graph.nodes)
edge_count(graph) == Len(graph.edges)

degree_distinct_neighbors(graph, word) == Cardinality(Range(get_neighbors(graph, word)))

\* WordGraph.degree(word)
degree(graph, word) == Len(get_neighbors(graph, word))

\* A pass that build_from_words does not run
PassSkipped(relations) == [relations |-> relations, ret |-> Ok(None)]

build_from_words_lemmas_first(words, use_roots, use_lemmas, use_normalized) ==
    LET after_lemmas == IF use_lemmas
                        THEN build_lemma_relations(<<>>, words, DEFAULT_LEMMA_WEIGHT)
                        ELSE PassSkipped(<<>>)
        after_roots == IF use_roots
                       THEN build_root_relations(after_lemmas.relations, words, DEFAULT_ROOT_WEIGHT)
                       ELSE PassSkipped(after_lemmas.relations)
        after_normalized == IF use_normalized
                            THEN build_normalized_text_relations(after_roots.relations, words, DEFAULT_NORMALIZED_WEIGHT)
                            ELSE PassSkipped(after_roots.relations)
    IN build_from_relations(after_normalized.relations)

\* GraphBuilder.build_from_words(words, use_roots, use_lemmas,
\* use_normalized): the passes of a new RelationBuilder with their default
\* weights, then build_from_relations on its list; any exception becomes
\* GraphBuildError
build_from_words(words, use_roots, use_lemmas, use_normalized) ==
    LET after_roots == IF use_roots
                       THEN build_root_relations(<<>>, words, DEFAULT_ROOT_WEIGHT)
                       ELSE PassSkipped(<<>>)
        after_lemmas == IF ~after_roots.ret.ok THEN after_roots
                        ELSE IF use_lemmas
                        THEN build_lemma_relations(after_roots.relations, words, DEFAULT_LEMMA_WEIGHT)
                        ELSE PassSkipped(after_roots.relations)
        after_normalized == IF ~after_lemmas.ret.ok THEN after_lemmas
                            ELSE IF use_normalized
                            THEN build_normalized_text_relations(after_lemmas.relations, words, DEFAULT_NORMALIZED_WEIGHT)
                            ELSE PassSkipped(after_lemmas.relations)
    IN IF ~after_normalized.ret.ok THEN Fail("GraphBuildError")
       ELSE build_from_relations(get_relations(after_normalized.relations))

-----------------------------------------------------------------------------
(* The dataset as the Corpus scenario sees it *)

\* The chapter file that is rewritten while a Corpus exists, and the
\* documents written into it
CorpusChapters == {1}
CorpusDocs(n) ==
    { DocMissing, DocBadJson,
      Doc(DatasetKeys \ {SURAH_NAME_KEY}, n),
      Doc(DatasetKeys, n + 1),
      DocA(n), DocAyahs(n) }

NoCall == [op |-> "none", args |-> <<>>, ok |-> TRUE, val |-> None, err |-> "none"]
Call(op, args, r) ==
    [op |-> op, args |-> args, ok |-> r.ok, val |-> r.val, err |-> r.err]

LoaderIdle == lret = NoCall
CorpusFresh ==
    /\ c_surahs = None
    /\ c_words = None
    /\ cret = NoCall
    /\ buildCalled = FALSE
RelFresh == rb_relations = <<>> /\ rb_log = <<>> /\ rret = NoCall
RelUnused == rb_words = <<>> /\ RelFresh
TextUnused == tx_text = <<>> /\ tret = NoCall
FilterUnused == wf_seed = <<>> /\ wf_words = <<>> /\ wfret = NoCall
GraphUnused == graphs = <<>> /\ gb_graph = 0 /\ gret = NoCall
NoRecordCall == vret = NoCall

-----------------------------------------------------------------------------
(* Corpus: construction, build() and the query operations *)

\* Corpus(data_path) over a dataset of 114 complete documents
Init ==
    /\ files = [n \in VariedChapters |-> DocA(n)]
    /\ LoaderIdle
    /\ CorpusFresh
    /\ RelUnused
    /\ TextUnused
    /\ FilterUnused
    /\ GraphUnused
    /\ NoRecordCall

\* The environment replaces a chapter file
WriteFile(n, d) ==
    /\ files[n] # d
    /\ files' = [files EXCEPT ![n] = d]
    /\ UNCHANGED <<loaderVars, corpusVars, relVars, textVars, filterVars, graphVars, recordVars>>

Build ==
    \E b \in {build(files, c_surahs, c_words)} :
       /\ c_surahs' = b.surahs
       /\ c_words' = b.words
       /\ cret' = [Call("build", <<>>, b.ret) EXCEPT
                       !.val = [stage |-> b.stage,
                                unchanged |-> b.surahs = c_surahs /\ b.words = c_words]]
       /\ buildCalled' = TRUE
       /\ UNCHANGED <<files, loaderVars, relVars, textVars, filterVars, graphVars, recordVars>>

\* A query: the fields are read, never written
Query(op, args, r) ==
    /\ cret' = Call(op, args, r)
    /\ UNCHANGED <<files, c_surahs, c_words, buildCalled, loaderVars, relVars, textVars, filterVars, graphVars, recordVars>>

\* Chapter and verse numbers passed to the queries
SurahArgs == CorpusChapters \cup {TOTAL_SURAHS + 1}
AyahArgs == {1, 2}

QuerySurahs == Query("surahs", <<>>, surahs_prop(c_surahs))
QueryWords == Query("words", <<>>, words_prop(c_words))
QueryGetSurah(n) == Query("get_surah", <<n>>, get_surah(c_surahs, n))
QueryGetAyah(n, a) == Query("get_ayah", <<n, a>>, get_ayah(c_surahs, n, a))
QueryFilterWords == Query("filter_words", <<>>, filter_words(c_words))
QueryTotalWords == Query("total_words", <<>>, total_words(c_words))
QueryTotalSurahs == Query("total_surahs", <<>>, total_surahs(c_surahs))
QueryTotalAyahs == Query("total_ayahs", <<>>, total_ayahs(c_surahs))
QueryWordCountBySurah ==
    Query("word_count_by_surah", <<>>, word_count_by_surah(c_surahs, c_words))

QueryOps ==
    {"surahs", "words", "get_surah", "get_ayah", "filter_words", "total_words",
     "total_surahs", "total_ayahs", "word_count_by_surah"}

Next ==
    \/ \E n \in CorpusChapters : \E d \in CorpusDocs(n) : WriteFile(n, d)
    \/ Build
    \/ QuerySurahs
    \/ QueryWords
    \/ \E n \in SurahArgs : QueryGetSurah(n)
    \/ \E n \in SurahArgs : \E a \in AyahArgs : QueryGetAyah(n, a)
    \/ QueryFilterWords
    \/ QueryTotalWords
    \/ QueryTotalSurahs
    \/ QueryTotalAyahs
    \/ QueryWordCountBySurah

Spec == Init /\ [][Next]_vars

-----------------------------------------------------------------------------
(* QuranJsonLoader over an arbitrary dataset *)

InitLoader ==
    /\ files \in [VariedChapters -> UNION {Docs(n) : n \in VariedChapters}]
    /\ \A n \in VariedChapters : files[n] \in Docs(n)
    /\ LoaderIdle
    /\ CorpusFresh
    /\ RelUnused
    /\ TextUnused
    /\ FilterUnused
    /\ GraphUnused
    /\ NoRecordCall

\* Chapter numbers passed to the loader
LoaderArgs == {0, 1, 2, 3, TOTAL_SURAHS, TOTAL_SURAHS + 1}
EndArgs == {None} \cup {Some(n) : n \in LoaderArgs \ {TOTAL_SURAHS}}

\* One call on a loader; the loader keeps no state between calls
LoadSurah(n) ==
    /\ LoaderIdle
    /\ lret' = Call("load_surah", <<n>>, load_surah(files, n))
    /\ UNCHANGED <<files, corpusVars, relVars, textVars, filterVars, graphVars, recordVars>>

LoadAllSurahs(start, end) ==
    /\ LoaderIdle
    /\ lret' = Call("load_all_surahs", <<start, end>>, load_all_surahs(files, start, end))
    /\ UNCHANGED <<files, corpusVars, relVars, textVars, filterVars, graphVars, recordVars>>

VerifyDataset ==
    /\ LoaderIdle
    /\ lret' = Call("verify_dataset", <<>>, verify_dataset(files))
    /\ UNCHANGED <<files, corpusVars, relVars, textVars, filterVars, graphVars, recordVars>>

NextLoader ==
    \/ \E n \in LoaderArgs : LoadSurah(n)
    \/ \E start \in LoaderArgs \ {TOTAL_SURAHS} : \E end \in EndArgs :
           LoadAllSurahs(start, end)
    \/ VerifyDataset

SpecLoader == InitLoader /\ [][NextLoader]_vars

-----------------------------------------------------------------------------
(* RelationBuilder: passes over a word list, add_relation, clear *)

RootK == <<1603, 1578, 1576>>
RootQ == <<1602, 1608, 1604>>
LemmaK == <<1603, 1578, 1575, 1576>>
NormA == <<1576>>
NormH == <<1575, 1607>>

RelWord(surah_number, ayah_number, position, normalized, root, lemma) ==
    [surah_number |-> surah_number, ayah_number |-> ayah_number,
     position |-> position, text |-> normalized, normalized |-> normalized,
     buckwalter |-> arabic_to_buckwalter(normalized), root |-> root, lemma |-> lemma]

\* Words with morphology as an analyser would supply it: two roots, two words
\* whose root is the empty string, an absent and an empty lemma, two surface
\* forms
WordPool ==
    { RelWord(1, 1, 0, NormA, Some(RootK), Some(LemmaK)),
      RelWord(1, 1, 1, NormA, Some(RootK), Some(LemmaK)),
      RelWord(1, 2, 0, NormH, Some(RootQ), None),
      RelWord(2, 1, 0, NormH, Some(<<>>), Some(LemmaK)),
      RelWord(2, 2, 0, NormA, Some(<<>>), Some(<<>>)) }

\* The longest word list passed to a pass, and the most calls that append
\* relations before a clear()
MaxWords == 3
MaxCalls == 2

\* A weight outside [0.0, 1.0]
BadWeight == DEFAULT_RELATION_WEIGHT + 1

InitRel ==
    /\ files = [n \in VariedChapters |-> DocA(n)]
    /\ LoaderIdle
    /\ CorpusFresh
    /\ rb_words \in SeqsUpTo(WordPool, MaxWords)
    /\ RelFresh
    /\ TextUnused
    /\ FilterUnused
    /\ GraphUnused
    /\ NoRecordCall

\* A call that may append.  r is the call on the accumulator; alone is the
\* same call on an empty accumulator, whose list is what the call by itself
\* emits and is what the log records.  The outcome keeps the list as it was
\* before the call.
RelCall(op, weight, r, alone) ==
    /\ Len(rb_log) < MaxCalls
    /\ rb_relations' = r.relations
    /\ rb_log' = Append(rb_log, alone.relations)
    /\ rret' = [op |-> op, args |-> <<weight>>, ok |-> r.ret.ok, err |-> r.ret.err,
                val |-> [before |-> rb_relations]]
    /\ UNCHANGED <<files, rb_words, loaderVars, corpusVars, textVars, filterVars, graphVars, recordVars>>

BuildRootRelations(w) ==
    RelCall("build_root_relations", w,
            build_root_relations(rb_relations, rb_words, w),
            build_root_relations(<<>>, rb_words, w))

BuildLemmaRelations(w) ==
    RelCall("build_lemma_relations", w,
            build_lemma_relations(rb_relations, rb_words, w),
            build_lemma_relations(<<>>, rb_words, w))

BuildNormalizedTextRelations(w) ==
    RelCall("build_normalized_text_relations", w,
            build_normalized_text_relations(rb_relations, rb_words, w),
            build_normalized_text_relations(<<>>, rb_words, w))

\* add_relation between the first and the last word of the list
AddRelation(relation_type, w) ==
    /\ rb_words # <<>>
    /\ RelCall("add_relation", w,
               add_relation(rb_relations, rb_words[1], rb_words[Len(rb_words)],
                            relation_type, w, None),
               add_relation(<<>>, rb_words[1], rb_words[Len(rb_words)],
                            relation_type, w, None))

Clear ==
    /\ rb_relations' = clear(rb_relations)
    /\ rb_log' = <<>>
    /\ rret' = [op |-> "clear", args |-> <<>>, ok |-> TRUE, err |-> "none",
                val |-> [before |-> rb_relations]]
    /\ UNCHANGED <<files, rb_words, loaderVars, corpusVars, textVars, filterVars, graphVars, recordVars>>

NextRel ==
    \/ \E w \in {DEFAULT_ROOT_WEIGHT, BadWeight} : BuildRootRelations(w)
    \/ BuildLemmaRelations(DEFAULT_LEMMA_WEIGHT)
    \/ BuildNormalizedTextRelations(DEFAULT_NORMALIZED_WEIGHT)
    \/ \E t \in {"manual", ""} : AddRelation(t, DEFAULT_RELATION_WEIGHT)
    \/ \E w \in {BadWeight, 0 - 1, NaN} : AddRelation("manual", w)
    \/ Clear

SpecRel == InitRel /\ [][NextRel]_vars

-----------------------------------------------------------------------------
(* The text functions on their own: normalizer, transliterator, tokenizer *)

\* Code points the texts are made of: beh, fatha, alef-hamza, waw-hamza,
\* alef wasla, taa marbuta, space, the Arabic comma, and the Latin letter b
TextChars == {1576, 1614, 1571, 1572, 1649, 1577, 32, 1548, 98}

\* The longest text
MaxLen == 3

\* Delimiters passed to tokenize_ayah: the default, a two-character one, ""
Delimiters == {WORD_DELIMITER, <<32, 32>>, <<>>}

InitText ==
    /\ files = [n \in VariedChapters |-> DocA(n)]
    /\ LoaderIdle
    /\ CorpusFresh
    /\ RelUnused
    /\ tx_text \in SeqsUpTo(TextChars, MaxLen)
    /\ tret = NoCall
    /\ FilterUnused
    /\ GraphUnused
    /\ NoRecordCall

\* One call of a text function on tx_text; the functions keep no state
TextCall(op, args, r) ==
    /\ tret = NoCall
    /\ tret' = Call(op, args, r)
    /\ UNCHANGED <<files, tx_text, loaderVars, corpusVars, relVars, filterVars, graphVars, recordVars>>

NormalizeText(d, h, a, t) ==
    TextCall("normalize_text", <<d, h, a, t>>, Ok(normalize_text(tx_text, d, h, a, t)))

ArabicToBuckwalter ==
    TextCall("arabic_to_buckwalter", <<>>, Ok(arabic_to_buckwalter(tx_text)))

BuckwalterToArabic ==
    TextCall("buckwalter_to_arabic", <<>>, Ok(buckwalter_to_arabic(tx_text)))

\* buckwalter_to_arabic(arabic_to_buckwalter(tx_text))
RoundTrip ==
    TextCall("round_trip", <<>>, Ok(buckwalter_to_arabic(arabic_to_buckwalter(tx_text))))

TokenizeAyah(delimiter) ==
    TextCall("tokenize_ayah", <<delimiter>>, tokenize_ayah(tx_text, delimiter))

\* Every way of putting some of the four steps in an order, each step once
StepOrders ==
    {order \in SeqsUpTo(StepNames, 4) :
        \A i, j \in DOMAIN order : i # j => order[i] # order[j]}

\* The caller applies the steps of order to tx_text, first to last
StepsInOrder(order) ==
    TextCall("steps_in_order", <<order>>, Ok(ApplySteps(order, tx_text)))

NextText ==
    \/ \E d, h, a, t \in BOOLEAN : NormalizeText(d, h, a, t)
    \/ ArabicToBuckwalter
    \/ BuckwalterToArabic
    \/ RoundTrip
    \/ \E delimiter \in Delimiters : TokenizeAyah(delimiter)
    \/ \E order \in StepOrders : StepsInOrder(order)

SpecText == InitText /\ [][NextText]_vars

-----------------------------------------------------------------------------
(* WordFilter: a filter seeded with a word list, its by_* operations *)

TextBa == <<1576, 1614>>

\* Words of two surahs and two ayahs, one whose text differs from its
\* normalized form, with roots and lemmas present and absent
FilterPool ==
    { [RelWord(1, 1, 0, NormA, Some(RootK), Some(LemmaK)) EXCEPT !.text = TextBa],
      RelWord(1, 2, 0, NormH, Some(RootQ), None),
      RelWord(1, 1, 1, NormH, None, Some(LemmaK)),
      RelWord(2, 1, 0, NormA, Some(RootK), None) }

FilterSurahArgs == {0, 1, 2, TOTAL_SURAHS + 1}
FilterAyahArgs == {0, 1, 2}
FilterTexts == {<<>>, NormA, NormH, TextBa, <<1614>>}
FilterRoots == {RootK, RootQ, <<>>}
FilterLemmas == {LemmaK, <<>>}

\* The operations that return a new filter
FilterOps == {"by_surah", "by_ayah", "by_text", "by_text_contains", "by_root", "by_lemma", "by_custom"}

\* Corpus.filter_words(): the filter holds the corpus word list
InitFilter ==
    /\ files = [n \in VariedChapters |-> DocA(n)]
    /\ LoaderIdle
    /\ CorpusFresh
    /\ RelUnused
    /\ TextUnused
    /\ wf_seed \in SeqsUpTo(FilterPool, MaxWords)
    /\ wf_words = wf_seed
    /\ wfret = NoCall
    /\ GraphUnused
    /\ NoRecordCall

\* A call on the filter whose words are wf_words: no operation assigns to
\* self.words, the outcome is a new filter (its words) or an exception
FilterCall(op, args, r) ==
    /\ wfret = NoCall
    /\ wfret' = Call(op, args, r)
    /\ UNCHANGED <<files, wf_seed, wf_words, loaderVars, corpusVars, relVars, textVars, graphVars, recordVars>>

\* The caller goes on with the filter a call returned
ContinueWithResult ==
    /\ wfret.op \in FilterOps
    /\ wfret.ok
    /\ wf_words' = wfret.val
    /\ wfret' = NoCall
    /\ UNCHANGED <<files, wf_seed, loaderVars, corpusVars, relVars, textVars, graphVars, recordVars>>

NextFilter ==
    \/ \E c \in FilterSurahArgs : FilterCall("by_surah", <<c>>, by_surah(wf_words, c))
    \/ \E c \in FilterSurahArgs, v \in FilterAyahArgs : FilterCall("by_ayah", <<c, v>>, by_ayah(wf_words, c, v))
    \/ \E x \in FilterTexts, n \in BOOLEAN : FilterCall("by_text", <<x, n>>, by_text(wf_words, x, n))
    \/ \E x \in FilterTexts, n \in BOOLEAN : FilterCall("by_text_contains", <<x, n>>, by_text_contains(wf_words, x, n))
    \/ \E x \in FilterRoots : FilterCall("by_root", <<x>>, by_root(wf_words, x))
    \/ \E x \in FilterLemmas : FilterCall("by_lemma", <<x>>, by_lemma(wf_words, x))
    \/ \E f \in Predicates : FilterCall("by_custom", <<f>>, by_custom(wf_words, f))
    \/ \E c \in FilterSurahArgs, v \in FilterAyahArgs : FilterCall("by_surah.by_ayah", <<c, v>>, by_surah_then_by_ayah(wf_words, c, v))
    \/ \E c \in FilterSurahArgs, v \in FilterAyahArgs : FilterCall("by_ayah.by_surah", <<c, v>>, by_ayah_then_by_surah(wf_words, c, v))
    \/ ContinueWithResult

SpecFilter == InitFilter /\ [][NextFilter]_vars

-----------------------------------------------------------------------------
(* WordGraph and GraphBuilder: graph objects, the builder's current graph *)

\* The most graph objects that exist, the most edges a graph holds when
\* add_edge is called on it, and the longest relation list passed to a build
MaxGraphs == 3
MaxEdges == 1
MaxRelations == 2

GraphWordA == RelWord(1, 1, 0, NormA, Some(RootK), Some(LemmaK))
GraphWordB == RelWord(1, 1, 1, NormA, Some(RootK), Some(LemmaK))
GraphWordC == RelWord(1, 2, 0, NormH, Some(RootQ), None)
GraphWords == {GraphWordA, GraphWordB, GraphWordC}

\* Arguments of add_node: a word with label="x", the same word without
\* attributes
NodeArgs == {<<GraphWordC, {<<"label", "x">>}>>, <<GraphWordC, {}>>}

\* Word lists passed to subgraph: two nodes of an edge, a word twice with a
\* word outside the edges, one word, none
SubgraphArgs == {<<GraphWordA, GraphWordB>>, <<GraphWordC, GraphWordC, GraphWordB>>, <<GraphWordB>>, <<>>}

\* Two relations between the same pair, one between another pair
RelationPool ==
    { [word1 |-> GraphWordA, word2 |-> GraphWordB, relation_type |-> "shared_root",
       weight |-> DEFAULT_ROOT_WEIGHT, metadata |-> Some([key |-> "root", value |-> RootK])],
      [word1 |-> GraphWordA, word2 |-> GraphWordB, relation_type |-> "shared_lemma",
       weight |-> DEFAULT_LEMMA_WEIGHT, metadata |-> Some([key |-> "lemma", value |-> LemmaK])],
      [word1 |-> GraphWordB, word2 |-> GraphWordC, relation_type |-> "manual",
       weight |-> DEFAULT_RELATION_WEIGHT, metadata |-> None] }

\* Arguments of add_edge: two words with the defaults weight=1.0,
\* relation_type="unknown"
EdgeArgs == { <<GraphWordB, GraphWordC, 10, "unknown">>, <<GraphWordC, GraphWordC, 5, "manual">> }

\* The words a GraphBuilder is asked to build from: two that share root,
\* lemma and normalized text, one that shares nothing
BuilderWords == <<GraphWordA, GraphWordB, GraphWordC>>

\* GraphBuilder(): its graph is a new empty WordGraph, object 1
InitGraph ==
    /\ files = [n \in VariedChapters |-> DocA(n)]
    /\ LoaderIdle
    /\ CorpusFresh
    /\ rb_words = BuilderWords
    /\ RelFresh
    /\ TextUnused
    /\ FilterUnused
    /\ graphs = <<WordGraph>>
    /\ gb_graph = 1
    /\ gret = NoCall
    /\ NoRecordCall

\* A call that leaves the graph objects as graphs_after and the builder's
\* self.graph as builder_after, and returns result
GraphCall(op, args, graphs_after, builder_after, result) ==
    /\ graphs' = graphs_after
    /\ gb_graph' = builder_after
    /\ gret' = Call(op, args, result)
    /\ UNCHANGED <<files, loaderVars, corpusVars, relVars, textVars, filterVars, recordVars>>

\* use_roots, use_lemmas, use_normalized as the builder is called here: all
\* passes (the defaults), none
BuilderFlags == {<<TRUE, TRUE, TRUE>>, <<FALSE, FALSE, FALSE>>}

\* builder.build_from_words(rb_words, use_roots, use_lemmas, use_normalized)
BuildFromWords(use_roots, use_lemmas, use_normalized) ==
    /\ Len(graphs) < MaxGraphs
    /\ \E built \in {build_from_words(rb_words, use_roots, use_lemmas, use_normalized)} :
          IF built.ok
          THEN GraphCall("build_from_words", <<rb_words, use_roots, use_lemmas, use_normalized>>,
                         Append(graphs, built.val), Len(graphs) + 1, Ok(Len(graphs) + 1))
          ELSE GraphCall("build_from_words", <<rb_words, use_roots, use_lemmas, use_normalized>>,
                         graphs, gb_graph, built)

GetGraph_of_constructor == GraphCall("get_graph", <<>>, graphs, gb_graph, Ok(1))

\* builder.get_graph()
GetGraph == GraphCall("get_graph", <<>>, graphs, gb_graph, Ok(gb_graph))

NextGraph ==
    \/ \E g \in DOMAIN graphs, n \in NodeArgs :
            GraphCall("add_node", <<g, n>>, [graphs EXCEPT ![g] = add_node(@, n[1], n[2])], gb_graph, Ok(None))
    \/ \E g \in DOMAIN graphs, e \in EdgeArgs :
            /\ Len(graphs[g].edges) <= MaxEdges - 1
            /\ GraphCall("add_edge", <<g, e>>, [graphs EXCEPT ![g] = add_edge(@, e[1], e[2], e[3], e[4])], gb_graph, Ok(None))
    \/ \E g \in DOMAIN graphs, words \in SubgraphArgs :
            /\ Len(graphs) < MaxGraphs
            /\ GraphCall("subgraph", <<g, words>>, Append(graphs, subgraph(graphs[g], words)), gb_graph, Ok(Len(graphs) + 1))
    \/ \E relations \in SeqsUpTo(RelationPool, MaxRelations) :
            /\ Len(graphs) < MaxGraphs
            /\ \E built \in {build_from_relations(relations)} :
                  GraphCall("build_from_relations", <<relations>>, Append(graphs, built.val), Len(graphs) + 1, Ok(Len(graphs) + 1))
    \/ \E use \in BuilderFlags : BuildFromWords(use[1], use[2], use[3])
    \/ GetGraph
    \/ \E g \in DOMAIN graphs, w \in GraphWords :
            GraphCall("degree", <<g, w>>, graphs, gb_graph, Ok(degree(graphs[g], w)))

SpecGraph == InitGraph /\ [][NextGraph]_vars

\* A new GraphBuilder and any list of words to build from, with any choice
\* of passes
InitBuild ==
    /\ files = [n \in VariedChapters |-> DocA(n)]
    /\ LoaderIdle
    /\ CorpusFresh
    /\ rb_words \in SeqsUpTo(WordPool, MaxWords)
    /\ RelFresh
    /\ TextUnused
    /\ FilterUnused
    /\ graphs = <<WordGraph>>
    /\ gb_graph = 1
    /\ gret = NoCall
    /\ NoRecordCall

NextBuild ==
    \/ \E use_roots \in BOOLEAN, use_lemmas \in BOOLEAN, use_normalized \in BOOLEAN :
            BuildFromWords(use_roots, use_lemmas, use_normalized)
    \/ GetGraph

SpecBuild == InitBuild /\ [][NextBuild]_vars

-----------------------------------------------------------------------------
(* The value records: constructor calls *)

\* Arguments of the constructors: numbers at and beyond each limit, empty and
\* non-empty texts, no global number, global numbers 0 and 1
RecordSurahs == {0, 1, TOTAL_SURAHS, TOTAL_SURAHS + 1}
RecordAyahs == {0, 1, 2}
RecordPositions == {0 - 1, 0, 1}
RecordTexts == {<<>>, TxtB}
RecordGlobals == {None, Some(0), Some(1)}

\* Ayah tuples passed to Surah: none, verses of chapter 1, of chapter 114,
\* of both
RecordAyahTuples ==
    { <<>>,
      <<Ayah(1, 1, TxtB, None).val, Ayah(1, 2, TxtB, Some(2)).val>>,
      <<Ayah(TOTAL_SURAHS, 1, TxtB, None).val>>,
      <<Ayah(1, 1, TxtB, None).val, Ayah(TOTAL_SURAHS, 1, TxtB, None).val>> }

RecordCall(op, args, r) ==
    /\ vret' = Call(op, args, r)
    /\ UNCHANGED <<files, loaderVars, corpusVars, relVars, textVars, filterVars, graphVars>>

NextRecords ==
    \/ \E c \in RecordSurahs, v \in RecordAyahs, text \in RecordTexts, g \in RecordGlobals :
            RecordCall("Ayah", <<c, v, text, g>>, Ayah(c, v, text, g))
    \/ \E c \in RecordSurahs, name \in RecordTexts, ayahs \in RecordAyahTuples :
            RecordCall("Surah", <<c, name, ayahs>>, Surah(c, name, ayahs, None, None))
    \/ \E c \in RecordSurahs, v \in RecordAyahs, position \in RecordPositions :
        \E text \in RecordTexts, normalized \in RecordTexts, buckwalter \in RecordTexts :
            RecordCall("Word", <<c, v, position, text, normalized, buckwalter>>,
                       Word(c, v, position, text, normalized, buckwalter, None, None))

SpecRecords == Init /\ [][NextRecords]_vars

-----------------------------------------------------------------------------
(* Properties of Corpus (checked under Spec) *)

BuildFailed == cret.op = "build" /\ ~cret.ok

\* No build() succeeds: the load stage fails on every dataset
NoBuildSucceeds == cret.op = "build" => (~cret.ok /\ cret.val.stage = "load")

\* C1: build() is atomic: a build() that fails leaves the chapter tuple and
\* the word list exactly as they were before the call, and on a Corpus whose
\* fields are still absent after it every query fails with the base
\* QuranalyzeError.
C1_BuildIsAtomic ==
    /\ BuildFailed => cret.val.unchanged
    /\ (buildCalled /\ cret.op \in QueryOps) =>
           (~cret.ok /\ cret.err = "QuranalyzeError" /\ cret.val = None)

\* A build() failed while loading the chapters of a dataset whose documents
\* are all complete, and left both fields absent
C1_Witness ==
    /\ BuildFailed
    /\ cret.val.stage = "load"
    /\ \A n \in DOMAIN files : files[n] = DocA(n)
    /\ c_surahs = None /\ c_words = None

\* C2: on a Corpus on which build() was never called, every query fails with
\* the base QuranalyzeError, returns nothing, and the Corpus stays unbuilt.
C2_UnbuiltQueriesFail ==
    ~buildCalled =>
        /\ c_surahs = None
        /\ c_words = None
        /\ cret.op \in QueryOps =>
               (~cret.ok /\ cret.err = "QuranalyzeError" /\ cret.val = None)

\* A query was made with arguments on a Corpus that was never built
C2_Witness == ~buildCalled /\ cret.op = "get_ayah" /\ cret.args = <<1, 1>>

-----------------------------------------------------------------------------
(* Properties of QuranJsonLoader (checked under SpecLoader) *)

\* The end of the range a load_all_surahs call names
EndOf(end_opt) == IF end_opt = None THEN TOTAL_SURAHS ELSE end_opt[1]

\* C5: every failure of load_surah is a data-load failure or a
\* data-validation failure.
C5_LoadFailuresAreDataErrors ==
    (lret.op = "load_surah" /\ ~lret.ok) =>
        lret.err \in {"DataLoadError", "DataValidationError"}

\* C6: verify_dataset never aborts, classifies each of the 114 chapters in
\* exactly one class, and counts the verses of the valid chapters.
C6_VerifyClassifiesAll ==
    lret.op = "verify_dataset" =>
        /\ lret.ok
        /\ lret.val.total_surahs + Len(lret.val.missing_surahs)
               + Len(lret.val.invalid_surahs) = TOTAL_SURAHS
        /\ lret.val.total_ayahs =
               SumRange([n \in 1..TOTAL_SURAHS |->
                            IF load_surah(files, n).ok
                            THEN ayah_count(load_surah(files, n).val) ELSE 0],
                        1, TOTAL_SURAHS)

\* No chapter is ever loaded: every load_surah and load_all_surahs call fails
NoSurahIsLoaded == lret.op \in {"load_surah", "load_all_surahs"} => ~lret.ok

\* C8: load_all_surahs(start, end) is all-or-nothing: on success it returns
\* the chapters start..end in order, one each; it fails, returning nothing,
\* when start or end is out of range, start > end, or some chapter of the
\* range does not load.
C8_LoadAllIsAllOrNothing ==
    lret.op = "load_all_surahs" =>
        LET start == lret.args[1]
            end == EndOf(lret.args[2])
            bad_range == \/ start < 1 \/ start > TOTAL_SURAHS
                         \/ end < 1 \/ end > TOTAL_SURAHS
                         \/ start > end
        IN /\ lret.ok =>
                  /\ Len(lret.val) = end - start + 1
                  /\ \A k \in DOMAIN lret.val :
                         /\ lret.val[k].number = start + k - 1
                         /\ lret.val[k] = load_surah(files, start + k - 1).val
           /\ (bad_range \/ \E n \in start..end : ~load_surah(files, n).ok) =>
                  (~lret.ok /\ lret.val = None)

\* A call over a valid range whose second chapter file is missing failed
\* and returned nothing
C8_Witness ==
    /\ lret.op = "load_all_surahs" /\ ~lret.ok
    /\ lret.args = <<1, Some(2)>>
    /\ files[1] = DocA(1) /\ files[2] = DocMissing
    /\ lret.val = None

-----------------------------------------------------------------------------
(* Properties of RelationBuilder (checked under SpecRel) *)

PassOps ==
    {"build_root_relations", "build_lemma_relations",
     "build_normalized_text_relations"}

\* The feature a pass groups a word by, None when the pass leaves it out
FeatureOf(op, w) ==
    IF op = "build_root_relations"
    THEN (IF w.root # None /\ w.root[1] # <<>> THEN w.root ELSE None)
    ELSE IF op = "build_lemma_relations"
    THEN (IF w.lemma # None /\ w.lemma[1] # <<>> THEN w.lemma ELSE None)
    ELSE Some(w.normalized)

Features(op) == {FeatureOf(op, rb_words[i]) : i \in DOMAIN rb_words} \ {None}

EmittedByLastCall == rb_log[Len(rb_log)]

\* C9: a pass emits, for each feature group of n words, exactly n*(n-1)/2
\* relations, none joining a word with itself and no pair twice.
C9_OneRelationPerPair ==
    (rret.op \in PassOps /\ rret.ok) =>
        LET emitted == EmittedByLastCall
        IN /\ \A f \in Features(rret.op) :
                  LET n == Cardinality({i \in DOMAIN rb_words :
                                           FeatureOf(rret.op, rb_words[i]) = f})
                      of_group == {k \in DOMAIN emitted :
                                      emitted[k].metadata[1].value = f[1]}
                  IN 2 * Cardinality(of_group) = n * (n - 1)
           /\ \A k \in DOMAIN emitted : emitted[k].word1 # emitted[k].word2
           /\ \A k, m \in DOMAIN emitted :
                  k # m => {emitted[k].word1, emitted[k].word2}
                               # {emitted[m].word1, emitted[m].word2}

\* The root for the root pass, the lemma for the lemma pass
MorphologyOf(op, w) == IF op = "build_root_relations" THEN w.root ELSE w.lemma

\* C20: the shared-root pass relates exactly the pairs of input words that
\* have the same non-absent root: every two input words whose root is present
\* and equal get a relation, no relation joins words with different or absent
\* roots, each relation carries the shared root as metadata with kind
\* shared_root and the default weight 1.0; the shared-lemma pass likewise
\* with lemma, shared_lemma and 0.5.
C20_PassRelatesEqualPresentFeature ==
    (rret.op \in {"build_root_relations", "build_lemma_relations"} /\ rret.ok) =>
        /\ \A i, j \in DOMAIN rb_words :
              (/\ i < j
               /\ MorphologyOf(rret.op, rb_words[i]) # None
               /\ MorphologyOf(rret.op, rb_words[i]) = MorphologyOf(rret.op, rb_words[j]))
              => \E k \in DOMAIN EmittedByLastCall :
                    {EmittedByLastCall[k].word1, EmittedByLastCall[k].word2}
                        = {rb_words[i], rb_words[j]}
        /\ \A k \in DOMAIN EmittedByLastCall :
              /\ MorphologyOf(rret.op, EmittedByLastCall[k].word1) # None
              /\ MorphologyOf(rret.op, EmittedByLastCall[k].word1)
                    = MorphologyOf(rret.op, EmittedByLastCall[k].word2)
              /\ EmittedByLastCall[k].metadata
                    = Some([key |-> IF rret.op = "build_root_relations" THEN "root" ELSE "lemma",
                            value |-> MorphologyOf(rret.op, EmittedByLastCall[k].word1)[1]])
              /\ EmittedByLastCall[k].relation_type
                    = (IF rret.op = "build_root_relations" THEN "shared_root" ELSE "shared_lemma")
              /\ EmittedByLastCall[k].weight
                    = (IF rret.op = "build_root_relations" THEN 10 ELSE 5)

\* C10: the accumulated list is the concatenation, in call order, of what
\* each call since construction or the last clear() emitted; a call keeps
\* the relations accumulated before it, in place; clear() empties the
\* list; count() is the length of get_relations().
C10_PassesAreAdditive ==
    /\ rb_relations = ConcatRange(rb_log, 1, Len(rb_log))
    /\ (rret.op \notin {"none", "clear"}) =>
           /\ Len(rret.val.before) <= Len(rb_relations)
           /\ SubSeq(rb_relations, 1, Len(rret.val.before)) = rret.val.before
    /\ rret.op = "clear" => rb_relations = <<>>
    /\ count(rb_relations) = Len(get_relations(rb_relations))

\* Two calls each appended relations, of different kinds
C10_Witness ==
    /\ Len(rb_log) = 2
    /\ rb_log[1] # <<>>
    /\ rb_log[2] # <<>>
    /\ rb_log[1][1].relation_type # rb_log[2][1].relation_type

\* A weight in [0.0, 1.0], in tenths
InUnitInterval(weight) == weight # NaN /\ 0 <= weight /\ weight <= 10

\* C21: every relation that exists has a weight in [0.0, 1.0] and a non-empty
\* kind: constructing or adding a relation with a weight outside [0.0, 1.0]
\* or an empty kind fails, a failed add_relation leaves the accumulated list
\* unchanged, and after any sequence of RelationBuilder operations every
\* accumulated relation satisfies both conditions.
C21_RelationsAreValid ==
    /\ \A k \in DOMAIN rb_relations :
          InUnitInterval(rb_relations[k].weight) /\ rb_relations[k].relation_type # ""
    /\ rret.op = "add_relation" =>
          /\ ~InUnitInterval(rret.args[1]) => ~rret.ok
          /\ ~rret.ok => rb_relations = rret.val.before
          /\ \A kind \in {"", "manual"} :
                (kind = "" \/ ~InUnitInterval(rret.args[1]))
                    => ~WordRelation(rb_words[1], rb_words[1], kind, rret.args[1], None).ok

-----------------------------------------------------------------------------
(* Properties of the text functions (checked under SpecText) *)

\* C16: normalization is idempotent: for every text and every setting of the
\* four options, normalizing the normalized text again with the same options
\* changes nothing.
C16_NormalizationIdempotent ==
    tret.op = "normalize_text" =>
        normalize_text(tret.val, tret.args[1], tret.args[2], tret.args[3],
                       tret.args[4]) = tret.val

C16_Witness ==
    /\ tret.op = "normalize_text"
    /\ tret.args = <<TRUE, TRUE, TRUE, TRUE>>
    /\ tx_text = <<1572, 1614, 1577>>
    /\ tret.val = <<1608, 1607>>

\* What one step makes of one character: the table's image, or the character
FoldBy(table, ch) ==
    IF \E k \in DOMAIN table : table[k][1] = ch
    THEN table[CHOOSE k \in DOMAIN table : table[k][1] = ch][2]
    ELSE ch

\* What the enabled steps, in the order diacritics, hamza, alef, taa marbuta,
\* make of one character: nothing, or one character
NormalizedChar(ch, d, h, a, t) ==
    IF d /\ ch \in Range(ARABIC_DIACRITICS) THEN <<>>
    ELSE LET c1 == IF h THEN FoldBy(HAMZA_FORMS, ch) ELSE ch
             c2 == IF a THEN FoldBy(ALEF_FORMS, c1) ELSE c1
             c3 == IF t THEN FoldBy(<< <<TAA_MARBUTA, TAA>> >>, c2) ELSE c2
         IN <<c3>>

ExpectedNormalized(text, d, h, a, t) ==
    ConcatRange([i \in 1..Len(text) |-> NormalizedChar(text[i], d, h, a, t)],
                1, Len(text))

\* C17: normalize_text equals the composition of exactly the enabled steps in
\* the order diacritic removal, hamza folding, alef folding, taa-marbuta
\* folding, each step acting on every occurrence of every character of its
\* table; disabled steps are skipped; the empty text comes back unchanged.
C17_NormalizeIsOrderedComposition ==
    tret.op = "normalize_text" =>
        /\ tret.ok
        /\ tret.val = ExpectedNormalized(tx_text, tret.args[1], tret.args[2],
                                         tret.args[3], tret.args[4])

C17_Witness ==
    /\ tret.op = "normalize_text"
    /\ tret.args = <<FALSE, FALSE, TRUE, FALSE>>
    /\ tx_text = <<1572, 1649, 1577>>
    /\ tret.val = <<1572, 1575, 1577>>

InArabicTable(ch) == \E p \in ARABIC_TO_BUCKWALTER_MAP : p[1] = ch
InBuckwalterTable(ch) == \E p \in BUCKWALTER_TO_ARABIC_MAP : p[1] = ch

\* C18: the transliteration table is a bijection and the reverse table its
\* inverse, so every in-table character and every string of in-table
\* characters survives arabic_to_buckwalter followed by buckwalter_to_arabic;
\* a character outside a direction's table passes through it unchanged.
C18_TransliterationIsBijective ==
    /\ tret.op = "round_trip" =>
          /\ Cardinality({p[1] : p \in ARABIC_TO_BUCKWALTER_MAP})
                = Cardinality(ARABIC_TO_BUCKWALTER_MAP)
          /\ Cardinality({p[2] : p \in ARABIC_TO_BUCKWALTER_MAP})
                = Cardinality(ARABIC_TO_BUCKWALTER_MAP)
          /\ \A p \in ARABIC_TO_BUCKWALTER_MAP :
                buckwalter_to_arabic(arabic_to_buckwalter(<<p[1]>>)) = <<p[1]>>
          /\ (\A i \in DOMAIN tx_text : InArabicTable(tx_text[i]))
                => tret.val = tx_text
    /\ tret.op = "arabic_to_buckwalter" =>
          /\ Len(tret.val) = Len(tx_text)
          /\ \A i \in DOMAIN tx_text :
                ~InArabicTable(tx_text[i]) => tret.val[i] = tx_text[i]
    /\ tret.op = "buckwalter_to_arabic" =>
          /\ Len(tret.val) = Len(tx_text)
          /\ \A i \in DOMAIN tx_text :
                ~InBuckwalterTable(tx_text[i]) => tret.val[i] = tx_text[i]

C18_Witness ==
    /\ tret.op = "round_trip"
    /\ tx_text = <<1576, 1614, 1577>>
    /\ tret.val = tx_text
    /\ arabic_to_buckwalter(tx_text) = <<98, 97, 112>>

\* The pieces of text from index from on: up to the first occurrence of the
\* delimiter, then the pieces after it
Occurrences(text, d, from) ==
    {i \in from..(Len(text) - Len(d) + 1) :
        \A k \in 1..Len(d) : text[i + k - 1] = d[k]}

RECURSIVE ExpectedPieces(_, _, _)
ExpectedPieces(text, d, from) ==
    LET occ == Occurrences(text, d, from)
    IN IF occ = {} THEN <<SubSeq(text, from, Len(text))>>
       ELSE <<SubSeq(text, from, MinOf(occ) - 1)>>
            \o ExpectedPieces(text, d, MinOf(occ) + Len(d))

\* A piece from its first to its last character that is not a boundary one
Trimmed(piece) ==
    LET keep == {i \in DOMAIN piece : piece[i] \notin BOUNDARY_CHARS}
    IN IF keep = {} THEN <<>>
       ELSE SubSeq(piece, MinOf(keep), CHOOSE i \in keep : \A j \in keep : j <= i)

ExpectedTokens(text, d) ==
    LET pieces == ExpectedPieces(text, d, 1)
    IN SelectSeq([k \in DOMAIN pieces |-> Trimmed(pieces[k])], LAMBDA w : w # <<>>)

\* C19: tokenize_ayah returns, in source order, the pieces of the text between
\* the delimiter's occurrences, each trimmed of boundary characters at both
\* ends, the empty ones dropped; every token is non-empty; the empty text
\* gives the empty sequence.
C19_TokensAreTrimmedPieces ==
    tret.op = "tokenize_ayah" =>
        /\ tx_text = <<>> => (tret.ok /\ tret.val = <<>>)
        /\ (tret.ok /\ tx_text # <<>>) =>
              /\ tret.val = ExpectedTokens(tx_text, tret.args[1])
              /\ \A k \in DOMAIN tret.val : tret.val[k] # <<>>

C19_Witness ==
    /\ tret.op = "tokenize_ayah"
    /\ tret.args = <<WORD_DELIMITER>>
    /\ tx_text = <<1548, 1576, 32>>
    /\ tret.val = << <<1576>> >>

-----------------------------------------------------------------------------
(* Properties of WordFilter (checked under SpecFilter) *)

\* Whether a word satisfies the predicate of a filtering operation
Satisfies(w, op, args) ==
    CASE op = "by_surah" -> w.surah_number = args[1]
      [] op = "by_ayah" -> w.surah_number = args[1] /\ w.ayah_number = args[2]
      [] op = "by_text" -> (IF args[2] THEN w.normalized ELSE w.text) = args[1]
      [] op = "by_text_contains" ->
            LET s == IF args[2] THEN w.normalized ELSE w.text
            IN \E i \in 0..(Len(s) - Len(args[1])) : SubSeq(s, i + 1, i + Len(args[1])) = args[1]
      [] op = "by_root" -> w.root # None /\ w.root[1] = args[1]
      [] op = "by_lemma" -> w.lemma # None /\ w.lemma[1] = args[1]
      [] op = "by_custom" -> ApplyPredicate(args[1], w).val = TRUE

\* The words at the satisfying positions, in the order of the positions
ExpectedFiltered(words, op, args) ==
    LET kept == {i \in DOMAIN words : Satisfies(words[i], op, args)}
    IN [k \in 1..Cardinality(kept) |->
            words[CHOOSE i \in kept : Cardinality({j \in kept : j <= i}) = k]]

\* C13: every filtering operation returns a new filter whose word sequence is
\* exactly the receiver's words that satisfy the predicate, in the receiver's
\* order, and the call leaves the receiver's word sequence and the word list
\* the filter was seeded from unchanged.
C13_FilterSelectsAndPreserves ==
    /\ [](wfret.op \in FilterOps /\ wfret.ok =>
            wfret.val = ExpectedFiltered(wf_words, wfret.op, wfret.args))
    /\ [][wfret'.op \in FilterOps /\ wfret' # wfret =>
            wf_words' = wf_words /\ wf_seed' = wf_seed /\ c_words' = c_words]_vars

C13_Witness ==
    /\ wfret.op = "by_text_contains"
    /\ wfret.args = <<<<1614>>, FALSE>>
    /\ Len(wf_words) = 3
    /\ wf_words[2].text = TextBa
    /\ wfret.val = <<wf_words[2]>>

\* C14: for every starting word sequence and every valid chapter c and verse
\* v, by_surah(c).by_ayah(c, v).get() and by_ayah(c, v).by_surah(c).get() are
\* the same words in the same order.
C14_SurahAndAyahFiltersCommute ==
    /\ (wfret.op = "by_surah.by_ayah" /\ wfret.args[1] \in 1..114 /\ wfret.args[2] >= 1) =>
          /\ wfret.ok
          /\ by_ayah_then_by_surah(wf_words, wfret.args[1], wfret.args[2]).ok
          /\ wfret.val = by_ayah_then_by_surah(wf_words, wfret.args[1], wfret.args[2]).val
    /\ (wfret.op = "by_ayah.by_surah" /\ wfret.args[1] \in 1..114 /\ wfret.args[2] >= 1) =>
          /\ wfret.ok
          /\ by_surah_then_by_ayah(wf_words, wfret.args[1], wfret.args[2]).ok
          /\ wfret.val = by_surah_then_by_ayah(wf_words, wfret.args[1], wfret.args[2]).val

C14_Witness ==
    /\ wfret.op = "by_surah.by_ayah"
    /\ wfret.args = <<1, 1>>
    /\ Len(wf_words) = 3
    /\ wf_words[1].surah_number = 2
    /\ wf_words[3].ayah_number = 2
    /\ wfret.val = <<wf_words[2]>>

\* Whether the last call is one that has to end in a filter error: a bad
\* chapter or verse index, or a predicate that raises on a word of the filter
BadIndexCall ==
    \/ wfret.op = "by_surah" /\ (wfret.args[1] < 1 \/ wfret.args[1] > 114)
    \/ wfret.op = "by_ayah" /\ (wfret.args[1] < 1 \/ wfret.args[1] > 114 \/ wfret.args[2] < 1)

RaisingWords == {i \in DOMAIN wf_words : ~ApplyPredicate(wfret.args[1], wf_words[i]).ok}

FilterErrorSignalled == ~wfret.ok /\ wfret.err = "FilterError" /\ wfret.val = None

\* C15: by_surah with a chapter index outside 1..114, by_ayah with a chapter
\* index outside 1..114 or a verse index below 1, and by_custom with a
\* predicate that raises on some word of the filter each signal a filter
\* error, whatever words the filter holds; no new filter is produced and the
\* receiver is unchanged.
C15_FilterErrors ==
    /\ [](BadIndexCall => FilterErrorSignalled)
    /\ [](wfret.op = "by_custom" /\ RaisingWords # {} => FilterErrorSignalled)
    /\ [][~wfret'.ok /\ wfret' # wfret => wf_words' = wf_words /\ wf_seed' = wf_seed]_vars

\* C15 as the code has it: the predicate's exception becomes a filter error
\* when it derives from Exception; one that derives only from BaseException
\* leaves by_custom as it is.  The first raising word decides.
C15_FilterErrorsForExceptions ==
    /\ [](BadIndexCall => FilterErrorSignalled)
    /\ [](wfret.op = "by_custom" /\ RaisingWords # {} =>
            \E e \in {ApplyPredicate(wfret.args[1], wf_words[MinOf(RaisingWords)]).err} :
                IF e \in NotDerivedFromException
                THEN ~wfret.ok /\ wfret.err = e /\ wfret.val = None
                ELSE FilterErrorSignalled)
    /\ [][~wfret'.ok /\ wfret' # wfret => wf_words' = wf_words /\ wf_seed' = wf_seed]_vars

C15_Witness ==
    /\ wfret.op = "by_custom"
    /\ wfret.args = <<"root_length">>
    /\ Len(wf_words) = 3
    /\ wf_words[1].root # None
    /\ wf_words[2].root = None
    /\ FilterErrorSignalled

-----------------------------------------------------------------------------
(* Properties of WordGraph and GraphBuilder (checked under SpecGraph) *)

\* The words that are nodes of a graph
NodeWords(graph) == {graph.nodes[i].word : i \in DOMAIN graph.nodes}

\* How many times an edge tuple occurs in a graph's edge list
Multiplicity(graph, e) == Cardinality({k \in DOMAIN graph.edges : graph.edges[k] = e})

\* C11: build_from_relations returns a graph whose edge list is one edge
\* (word1, word2, weight, kind) per input relation, in input order, nothing
\* merged, and whose node set is the set of words that are an endpoint of
\* some relation; k relations give k edges and at most 2k nodes, no relation
\* gives no node and no edge.
C11_OneEdgePerRelation ==
    (gret.op = "build_from_relations") =>
        /\ gret.ok
        /\ Len(graphs[gret.val].edges) = Len(gret.args[1])
        /\ \A k \in DOMAIN gret.args[1] :
              graphs[gret.val].edges[k]
                = <<gret.args[1][k].word1, gret.args[1][k].word2,
                    gret.args[1][k].weight, gret.args[1][k].relation_type>>
        /\ NodeWords(graphs[gret.val])
              = {gret.args[1][k].word1 : k \in DOMAIN gret.args[1]}
                \cup {gret.args[1][k].word2 : k \in DOMAIN gret.args[1]}
        /\ Cardinality(NodeWords(graphs[gret.val])) = Len(graphs[gret.val].nodes)
        /\ Len(graphs[gret.val].nodes) <= 2 * Len(gret.args[1])
        /\ gret.args[1] = <<>> => graphs[gret.val] = [nodes |-> <<>>, edges |-> <<>>]

C11_Witness ==
    /\ gret.op = "build_from_relations"
    /\ Len(gret.args[1]) = 2
    /\ gret.args[1][1].relation_type = "shared_root"
    /\ gret.args[1][2].relation_type = "shared_lemma"
    /\ Len(graphs[gret.val].edges) = 2
    /\ Len(graphs[gret.val].nodes) = 2

\* C12: G.subgraph(S) has node set S intersected with the nodes of G, with
\* G's attributes; each of its edges has both endpoints in S; each edge of G
\* with both endpoints in S is in it as many times as in G, with its weight
\* and kind; the call leaves G, and every other graph, unchanged.
C12_SubgraphIsInduced ==
    /\ [](gret.op = "subgraph" =>
            /\ NodeWords(graphs[gret.val])
                  = Range(gret.args[2]) \cap NodeWords(graphs[gret.args[1]])
            /\ Cardinality(NodeWords(graphs[gret.val])) = Len(graphs[gret.val].nodes)
            /\ \A i \in DOMAIN graphs[gret.val].nodes :
                  \E n \in DOMAIN graphs[gret.args[1]].nodes :
                      graphs[gret.args[1]].nodes[n] = graphs[gret.val].nodes[i]
            /\ \A k \in DOMAIN graphs[gret.val].edges :
                  /\ graphs[gret.val].edges[k][1] \in Range(gret.args[2])
                  /\ graphs[gret.val].edges[k][2] \in Range(gret.args[2])
                  /\ Multiplicity(graphs[gret.args[1]], graphs[gret.val].edges[k]) > 0
            /\ \A k \in DOMAIN graphs[gret.args[1]].edges :
                  (/\ graphs[gret.args[1]].edges[k][1] \in Range(gret.args[2])
                   /\ graphs[gret.args[1]].edges[k][2] \in Range(gret.args[2]))
                  => Multiplicity(graphs[gret.val], graphs[gret.args[1]].edges[k])
                        = Multiplicity(graphs[gret.args[1]], graphs[gret.args[1]].edges[k]))
    /\ [][gret'.op = "subgraph" /\ Len(graphs') # Len(graphs) =>
            \A i \in DOMAIN graphs : graphs'[i] = graphs[i]]_vars

C12_Witness ==
    /\ gret.op = "subgraph"
    /\ gret.args[2] = <<GraphWordA, GraphWordB>>
    /\ Len(graphs[gret.args[1]].edges) = 2
    /\ GraphWordC \in NodeWords(graphs[gret.args[1]])
    /\ Len(graphs[gret.val].edges) = 1
    /\ Len(graphs[gret.val].nodes) = 2

\* The indices of the edges that have the word as an endpoint
EdgesTouching(graph, word) ==
    {k \in DOMAIN graph.edges : graph.edges[k][1] = word \/ graph.edges[k][2] = word}

\* The indices of the edges that join the two words
EdgesJoining(graph, word, other) ==
    {k \in DOMAIN graph.edges :
        \/ graph.edges[k][1] = word /\ graph.edges[k][2] = other
        \/ graph.edges[k][1] = other /\ graph.edges[k][2] = word}

\* C24: degree(w) is the number of edges that have w as an endpoint, which
\* is the length of get_edges_for_word(w) and of get_neighbors(w); each of
\* several edges between the same pair is counted and gives one more entry
\* of the same neighbor.
C24_DegreeCountsEdges ==
    gret.op = "degree" =>
        /\ gret.val = Cardinality(EdgesTouching(graphs[gret.args[1]], gret.args[2]))
        /\ gret.val = Len(get_edges_for_word(graphs[gret.args[1]], gret.args[2]))
        /\ gret.val = Len(get_neighbors(graphs[gret.args[1]], gret.args[2]))
        /\ \A k \in DOMAIN get_edges_for_word(graphs[gret.args[1]], gret.args[2]) :
              gret.args[2] \in {get_edges_for_word(graphs[gret.args[1]], gret.args[2])[k][1],
                                get_edges_for_word(graphs[gret.args[1]], gret.args[2])[k][2]}
        /\ \A other \in GraphWords :
              Cardinality({k \in DOMAIN get_neighbors(graphs[gret.args[1]], gret.args[2]) :
                              get_neighbors(graphs[gret.args[1]], gret.args[2])[k] = other})
                = Cardinality(EdgesJoining(graphs[gret.args[1]], gret.args[2], other))

\* degree of a word with three edges to the same neighbor
C24_Witness ==
    /\ gret.op = "degree"
    /\ gret.val = 3
    /\ gret.args[2] = GraphWordA
    /\ get_neighbors(graphs[gret.args[1]], GraphWordA) = <<GraphWordB, GraphWordB, GraphWordB>>

\* The attributes stored for a word that is a node
AttributesOf(graph, word) ==
    {graph.nodes[i].attributes : i \in {n \in DOMAIN graph.nodes : graph.nodes[n].word = word}}

\* C29: in every graph both endpoints of every edge are nodes and
\* node_count() is the number of distinct words added: add_node and add_edge
\* add exactly the words given that are not yet nodes, and add_node on a
\* word that is a node leaves the node count and the node's attributes as
\* they were.
C29_NodesCoverEdges ==
    /\ [](\A g \in DOMAIN graphs :
            /\ \A k \in DOMAIN graphs[g].edges :
                  {graphs[g].edges[k][1], graphs[g].edges[k][2]} \subseteq NodeWords(graphs[g])
            /\ node_count(graphs[g]) = Cardinality(NodeWords(graphs[g])))
    /\ [][gret'.op = "add_node" =>
            /\ NodeWords(graphs'[gret'.args[1]])
                  = NodeWords(graphs[gret'.args[1]]) \cup {gret'.args[2][1]}
            /\ \A w \in NodeWords(graphs[gret'.args[1]]) :
                  AttributesOf(graphs'[gret'.args[1]], w) = AttributesOf(graphs[gret'.args[1]], w)
            /\ gret'.args[2][1] \in NodeWords(graphs[gret'.args[1]]) =>
                  node_count(graphs'[gret'.args[1]]) = node_count(graphs[gret'.args[1]])]_vars
    /\ [][gret'.op = "add_edge" =>
            /\ NodeWords(graphs'[gret'.args[1]])
                  = NodeWords(graphs[gret'.args[1]]) \cup {gret'.args[2][1], gret'.args[2][2]}
            /\ \A w \in NodeWords(graphs[gret'.args[1]]) :
                  AttributesOf(graphs'[gret'.args[1]], w) = AttributesOf(graphs[gret'.args[1]], w)]_vars

\* add_node without attributes on a word that is a node with label="x",
\* in a graph that has an edge
C29_Witness ==
    /\ gret.op = "add_node"
    /\ gret.args[2] = <<GraphWordC, {}>>
    /\ AttributesOf(graphs[gret.args[1]], GraphWordC) = {{<<"label", "x">>}}
    /\ Len(graphs[gret.args[1]].edges) = 1
    /\ node_count(graphs[gret.args[1]]) = 2

BuildOps == {"build_from_relations", "build_from_words"}

\* The graph a build returns for its arguments, whatever was built before
GraphOf(call) ==
    IF call.op = "build_from_relations" THEN build_from_relations(call.args[1]).val
    ELSE build_from_words(call.args[1], call.args[2], call.args[3], call.args[4]).val

\* C23: a build makes a new graph that is a function of the call's
\* arguments alone, makes it the builder's graph and returns it, and leaves
\* every graph that exists unchanged; get_graph() returns the builder's
\* graph, which is the empty graph of the constructor until the first build
\* and which only a build replaces.
C23_BuildsFromScratch ==
    /\ (graphs = <<[nodes |-> <<>>, edges |-> <<>>]>> /\ gb_graph = 1)
    /\ [](gret.op = "get_graph" => gret.val = gb_graph)
    /\ [][gret'.op \in BuildOps =>
            /\ gret'.ok
            /\ Len(graphs') = Len(graphs) + 1
            /\ gret'.val = Len(graphs')
            /\ gb_graph' = Len(graphs')
            /\ graphs'[Len(graphs')] = GraphOf(gret')
            /\ \A i \in DOMAIN graphs : graphs'[i] = graphs[i]]_vars
    /\ [][gret'.op \notin BuildOps =>
            /\ gb_graph' = gb_graph
            /\ \A i \in DOMAIN graphs :
                  graphs'[i] # graphs[i] => gret'.op \in {"add_node", "add_edge"} /\ gret'.args[1] = i]_vars

\* get_graph() after a build from words and then a build from no relation:
\* the second graph is the builder's, the first still has its three edges
C23_Witness ==
    /\ gret.op = "get_graph"
    /\ gret.val = 3
    /\ graphs[3] = [nodes |-> <<>>, edges |-> <<>>]
    /\ Len(graphs[2].edges) = 3
    /\ graphs[2].edges[3][4] = "identical_normalized"

\* The relations of one pass of a new RelationBuilder, none when the pass
\* is not enabled
PassAlone(enabled, pass) == IF enabled THEN pass.relations ELSE <<>>

\* C22: build_from_words(words, use_roots, use_lemmas, use_normalized)
\* returns the graph build_from_relations returns for the relations of the
\* shared-root pass if use_roots, then those of the shared-lemma pass if
\* use_lemmas, then those of the identical-normalized pass if
\* use_normalized, each over the same words.
C22_BuildFromWordsIsPassesThenBuild ==
    gret.op = "build_from_words" =>
        /\ gret.ok
        /\ graphs[gret.val]
              = build_from_relations(
                    PassAlone(gret.args[2], build_root_relations(<<>>, gret.args[1], DEFAULT_ROOT_WEIGHT))
                    \o PassAlone(gret.args[3], build_lemma_relations(<<>>, gret.args[1], DEFAULT_LEMMA_WEIGHT))
                    \o PassAlone(gret.args[4], build_normalized_text_relations(<<>>, gret.args[1], DEFAULT_NORMALIZED_WEIGHT))).val

\* A build with all passes on words that share a root, a lemma and a
\* normalized text
C22_Witness ==
    /\ gret.op = "build_from_words"
    /\ gret.args[2] /\ gret.args[3] /\ gret.args[4]
    /\ Len(graphs[gret.val].edges) >= 3
    /\ \E i, j, k \in DOMAIN graphs[gret.val].edges :
          /\ i < j /\ j < k
          /\ graphs[gret.val].edges[i][4] = "shared_root"
          /\ graphs[gret.val].edges[j][4] = "shared_lemma"
          /\ graphs[gret.val].edges[k][4] = "identical_normalized"

-----------------------------------------------------------------------------
(* The two fields of a Corpus (checked under Spec) *)

\* The Corpus has a chapter tuple and a word list
Built == c_surahs # None /\ c_words # None

\* C28: the chapter tuple and the word list of a Corpus are both absent or
\* both present, and the word list is the one build() derives from the
\* chapter tuple.
C28_FieldsAgree ==
    /\ c_surahs = None <=> c_words = None
    /\ Built => BuildWords(c_surahs[1]) = Ok(c_words[1])

\* A query on a Corpus after a build() that failed: both fields are absent
C28_Witness ==
    /\ buildCalled
    /\ cret.op = "total_surahs"
    /\ c_surahs = None /\ c_words = None


-----------------------------------------------------------------------------
(* Properties of the value records (checked under SpecRecords) *)

ValidAyah(a) ==
    /\ a.surah_number \in 1..114
    /\ a.ayah_number >= 1
    /\ a.text # <<>>
    /\ a.number_in_quran # None => a.number_in_quran[1] >= 1

ValidSurah(s) ==
    /\ s.number \in 1..114
    /\ s.name # <<>>
    /\ Len(s.ayahs) >= 1
    /\ \A k \in DOMAIN s.ayahs : s.ayahs[k].surah_number = s.number /\ ValidAyah(s.ayahs[k])

ValidWord(w) ==
    /\ w.surah_number \in 1..114
    /\ w.ayah_number >= 1
    /\ w.position >= 0
    /\ w.text # <<>> /\ w.normalized # <<>> /\ w.buckwalter # <<>>

\* C25: a constructor call returns a record exactly when its arguments
\* satisfy every condition of the record's kind, the record has the
\* arguments as fields and satisfies those conditions, and a refused
\* construction fails with ValueError.
C25_RecordsAreValid ==
    /\ vret.op = "Ayah" =>
          /\ vret.ok <=> ValidAyah([surah_number |-> vret.args[1], ayah_number |-> vret.args[2],
                                    text |-> vret.args[3], number_in_quran |-> vret.args[4]])
          /\ vret.ok => ValidAyah(vret.val) /\ vret.val.number_in_quran = vret.args[4]
    /\ vret.op = "Surah" =>
          /\ vret.ok <=> ValidSurah([number |-> vret.args[1], name |-> vret.args[2],
                                     ayahs |-> vret.args[3]])
          /\ vret.ok => ValidSurah(vret.val) /\ vret.val.ayahs = vret.args[3]
    /\ vret.op = "Word" =>
          /\ vret.ok <=> ValidWord([surah_number |-> vret.args[1], ayah_number |-> vret.args[2],
                                    position |-> vret.args[3], text |-> vret.args[4],
                                    normalized |-> vret.args[5], buckwalter |-> vret.args[6]])
          /\ vret.ok => ValidWord(vret.val)
    /\ vret.op \in {"Ayah", "Surah", "Word"} /\ ~vret.ok => vret.err = "ValueError"

\* A Surah refused only because one of its verses is of another chapter
C25_Witness ==
    /\ vret.op = "Surah"
    /\ ~vret.ok
    /\ vret.args[1] = 1 /\ vret.args[2] # <<>> /\ Len(vret.args[3]) = 2

-----------------------------------------------------------------------------
(* More properties of the text functions (checked under SpecText) *)

\* C30: the four normalization steps commute: for every text and every set
\* of enabled steps, the enabled steps applied in any order give what
\* normalize_text gives with those steps enabled.
C30_StepsCommute ==
    tret.op = "steps_in_order" =>
        tret.val = normalize_text(tx_text,
                                  "remove_diacritics" \in Range(tret.args[1]),
                                  "normalize_hamza" \in Range(tret.args[1]),
                                  "normalize_alef" \in Range(tret.args[1]),
                                  "normalize_taa_marbuta" \in Range(tret.args[1]))

C30_Witness ==
    /\ tret.op = "steps_in_order"
    /\ tret.args[1] = <<"normalize_taa_marbuta", "normalize_alef", "normalize_hamza", "remove_diacritics">>
    /\ tx_text = <<1571, 1614, 1577>>
    /\ tret.val = <<1575, 1607>>

====
